---- MODULE Spec2Model ----
(***************************************************************************)
(* Octal Plus: a six-bit microcontroller simulator (Machine), its          *)
(* assembler (Assembler) and the debugger that joins them (Debugger),      *)
(* modelled from src/py/toys/octalplus.py.                                 *)
(***************************************************************************)
EXTENDS Integers, Sequences, FiniteSets, TLC

VARIABLES memory, registers, clock, hooks, fetched, result, lastop, budget,
          pushed, popped, s0, assembler, messages, assembly

mvars == <<memory, registers, clock, hooks, fetched, result, lastop, budget,
           pushed, popped, s0>>

dvars == <<assembler, messages, assembly>>

vars == <<mvars, dvars>>

(***************************************************************************)
(* Bit operations on Python integers.                                      *)
(***************************************************************************)
\* a & b for octal digits a and b
AndDigit(a, b) ==
    ((a % 2) * (b % 2) + 2 * (((a \div 2) % 2) * ((b \div 2) % 2)))
    + 4 * ((a \div 4) * (b \div 4))

\* a & b for a, b >= 0, one octal digit at a time
RECURSIVE BitAnd(_, _)
BitAnd(a, b) ==
    IF a = 0 \/ b = 0 THEN 0
    ELSE AndDigit(a % 8, b % 8) + 8 * BitAnd(a \div 8, b \div 8)

\* a | b for a, b >= 0
RECURSIVE BitOr(_, _)
BitOr(a, b) ==
    IF a = 0 THEN b
    ELSE IF b = 0 THEN a
    ELSE (((a % 8) + (b % 8)) - AndDigit(a % 8, b % 8))
         + 8 * BitOr(a \div 8, b \div 8)

\* a << n and a >> n for a >= 0
Shl(a, n) == a * 2^n

Shr(a, n) == a \div 2^n

\* value & 077 on a Python integer of either sign
Mask6(v) == v % 64

\* (~v) & 077 for v in 0..63
Not6(v) == 63 - v

(***************************************************************************)
(* Module-level tables.                                                    *)
(***************************************************************************)
OSCII ==
    << " ", "A", "B", "C", "D", "E", "F", "G",
       "H", "I", "J", "K", "L", "M", "N", "O",
       "P", "Q", "R", "S", "T", "U", "V", "W",
       "X", "Y", "Z", "0", "1", "2", "3", "4",
       "5", "6", "7", "8", "9", ".", "!", "@",
       "#", "$", "%", "^", "&", "*", "-", "=",
       "+", ":", ";", "?", "<", ">", "[", "]",
       "{", "}", "(", ")", "'", "\"", "/", "\\" >>

Symbols == { OSCII[i] : i \in 1..64 }

ENCODING == [ c \in Symbols |-> CHOOSE n \in 0..63 : OSCII[n + 1] = c ]

OPCODES ==
    << "clr",  "clr",  "jmp",  "ql0", "clr",  "clr",  "clr",  "qs0",
       "load", "load", "load", "ql1", "jc",   "jm",   "jz",   "qs1",
       "save", "save", "save", "ql2", "jnc",  "jnm",  "jnz",  "qs2",
       "pop",  "pop",  "ret",  "ql3", "rol",  "inc",  "pop",  "qs3",
       "push", "push", "call", "ql4", "ror",  "dec",  "push", "qs4",
       "load", "load", "stop", "ql5", "load", "load", "load", "qs5",
       "add",  "add",  "add",  "ql6", "and",  "and",  "and",  "qs6",
       "sub",  "sub",  "sub",  "ql7", "or",   "or",   "or",   "qs7" >>

\* OPCODES[opcode] with Python's 0-based index
OpClass(opcode) == OPCODES[opcode + 1]

(***************************************************************************)
(* class Machine: constants.                                               *)
(***************************************************************************)
RAM == 0
RAMLEN == 20
PROM == 24
PROMLEN == 40
SCREEN == 16
DIRECTIONS == 20
PORTS == 21
TICKSLOW == 22
TICKFAST == 23
STACK == 16

REGISTERS == { "A", "B", "I", "S", "F" }
RESET == [ A |-> 0, B |-> 0, I |-> PROM, S |-> STACK, F |-> 0 ]
FLAGS == [ C |-> 4, M |-> 2, Z |-> 1 ]

STOP == 42
POPS == { 24, 25, 26, 30 }
PUSHES == { 32, 33, 34, 38 }
BASES == { 10, 18, 50, 58, 46, 54, 62 }
\* the table without OR A,_
IMMEDIATES_short == { 2, 8, 9, 12, 13, 14,
                      16, 17, 20, 21, 22,
                      34, 44, 45, 46,
                      48, 52, 56 }

IMMEDIATES == { 2, 8, 9, 12, 13, 14,
                16, 17, 20, 21, 22,
                34, 44, 45, 46,
                48, 52, 56, 60 }

\* the integer entries of the Python tables (quick page addresses) are
\* written as digits
SOURCES ==
    << "X",   "X",   "_",   "0", "X", "X", "X",   "A",
       "[_]", "[_]", "[B]", "1", "_", "_", "_",   "A",
       "A",   "B",   "A",   "2", "_", "_", "_",   "A",
       "[S]", "[S]", "[S]", "3", "A", "B", "[S]", "A",
       "A",   "B",   "_",   "4", "A", "B", "F",   "A",
       "B",   "A",   "X",   "5", "_", "_", "_",   "A",
       "_",   "B",   "[B]", "6", "_", "B", "[B]", "A",
       "_",   "B",   "[B]", "7", "_", "B", "[B]", "A" >>

TARGETS ==
    << "A",   "B",   "I",   "A", "C", "M", "Z",   "0",
       "A",   "B",   "A",   "A", "I", "I", "I",   "1",
       "[_]", "[_]", "[B]", "A", "I", "I", "I",   "2",
       "A",   "B",   "I",   "A", "A", "B", "F",   "3",
       "[S]", "[S]", "I",   "A", "A", "B", "[S]", "4",
       "A",   "B",   "I",   "A", "A", "B", "F",   "5",
       "A",   "A",   "A",   "A", "A", "A", "A",   "6",
       "A",   "A",   "A",   "A", "A", "A", "A",   "7" >>

Digit == [ d \in { "0", "1", "2", "3", "4", "5", "6", "7" } |->
             CASE d = "0" -> 0 [] d = "1" -> 1 [] d = "2" -> 2 [] d = "3" -> 3
               [] d = "4" -> 4 [] d = "5" -> 5 [] d = "6" -> 6 [] d = "7" -> 7 ]

(***************************************************************************)
(* An address handed to set/get is a register or flag name, or a memory    *)
(* cell number.                                                            *)
(***************************************************************************)
Name(n) == [ name |-> n, cell |-> 0 ]
Cell(a) == [ name |-> "", cell |-> a ]
Address(entry) == IF entry \in DOMAIN Digit THEN Cell(Digit[entry]) ELSE Name(entry)

\* operand of an instruction that has none (Python None)
None == "None"

\* The machine: memory, registers, clock, and the log of hook calls.
Machine(mem, regs, clk, log) ==
    [ memory |-> mem, registers |-> regs, clock |-> clk, hooks |-> log ]

(***************************************************************************)
(* Machine.set                                                             *)
(***************************************************************************)
setflag(m, flagname, value) ==
    LET bit == IF value # 0 THEN FLAGS[flagname] ELSE 0
        f   == m.registers["F"]
        cleared == f - BitAnd(f, FLAGS[flagname])
    IN  [ m EXCEPT !.registers["F"] = BitOr(cleared, bit) ]

\* setmemory writing whatever the address
setmemory_anywhere(m, cell, value, prom) ==
    LET address == Mask6(cell)
        v == IF address = PORTS THEN BitAnd(value, m.memory[DIRECTIONS]) ELSE value
    IN  [ m EXCEPT !.memory[address] = v ]

\* a memory that can be written below the display cells only
setmemory_quick(m, cell, value, prom) ==
    LET address == Mask6(cell)
        v == IF address = PORTS THEN BitAnd(value, m.memory[DIRECTIONS]) ELSE value
    IN  IF address < SCREEN \/ prom
        THEN [ m EXCEPT !.memory[address] = v ]
        ELSE m

setmemory(m, cell, value, prom) ==
    LET address == Mask6(cell)
        v  == IF address = PORTS THEN BitAnd(value, m.memory[DIRECTIONS]) ELSE value
        m1 == IF address = PORTS
              THEN [ m EXCEPT !.memory[address] = BitOr(@, @) ]
              ELSE m
    IN  IF address < PROM \/ prom
        THEN [ m1 EXCEPT !.memory[address] = v ]
        ELSE m1

\* a set() that latches the value as it is given
set_unmasked(m, address, value, prom) ==
    IF address.name \in DOMAIN FLAGS THEN setflag(m, address.name, Mask6(value))
    ELSE IF address.name \in REGISTERS
         THEN [ m EXCEPT !.registers[address.name] = value ]
    ELSE setmemory(m, address.cell, value, prom)

set(m, address, value, prom) ==
    LET v == Mask6(value)
    IN  IF address.name \in DOMAIN FLAGS THEN setflag(m, address.name, v)
        ELSE IF address.name \in REGISTERS
             THEN [ m EXCEPT !.registers[address.name] = v ]
        ELSE setmemory(m, address.cell, v, prom)

(***************************************************************************)
(* Machine.get                                                             *)
(***************************************************************************)
get(m, address) ==
    IF address.name = "X" THEN 0
    ELSE IF address.name \in DOMAIN FLAGS
         THEN IF BitAnd(m.registers["F"], FLAGS[address.name]) # 0 THEN 1 ELSE 0
    ELSE IF address.name \in REGISTERS THEN m.registers[address.name]
    ELSE m.memory[Mask6(address.cell)]

(***************************************************************************)
(* Machine.tick, Machine.io                                                *)
(***************************************************************************)
\* a tick that updates the fast ticker only
tick_fast(m) ==
    LET c1 == Shr(m.clock, 3)
        m1 == set(m, Cell(TICKFAST), BitAnd(c1, 63), FALSE)
    IN  [ m1 EXCEPT !.clock = @ + 1 ]

tick(m) ==
    LET c1 == Shr(m.clock, 3)
        m1 == set(m, Cell(TICKFAST), BitAnd(c1, 63), FALSE)
        c2 == Shr(c1, 6)
        m2 == set(m1, Cell(TICKSLOW), BitAnd(c2, 63), FALSE)
    IN  [ m2 EXCEPT !.clock = @ + 1 ]

\* an I/O pass that takes every bit inp supplies
io_open(m, input) ==
    LET outputs == m.memory[DIRECTIONS]
        value   == BitAnd(m.memory[PORTS], outputs)
        merged  == BitOr(value, input)
        m1      == [ m EXCEPT !.memory[PORTS] = merged ]
        screen  == << m1.memory[SCREEN], m1.memory[SCREEN + 1],
                      m1.memory[SCREEN + 2], m1.memory[SCREEN + 3] >>
    IN  [ m1 EXCEPT !.hooks = @ \o << <<"out", value>>, <<"inp", input>>,
                                      <<"display", screen>> >> ]

\* an I/O pass that hands the ports register to out as it is
io_raw(m, input) ==
    LET outputs == m.memory[DIRECTIONS]
        inputs  == Not6(outputs)
        value   == BitAnd(m.memory[PORTS], outputs)
        merged  == BitOr(value, BitAnd(input, inputs))
        m1      == [ m EXCEPT !.memory[PORTS] = merged ]
        screen  == << m1.memory[SCREEN], m1.memory[SCREEN + 1],
                      m1.memory[SCREEN + 2], m1.memory[SCREEN + 3] >>
    IN  [ m1 EXCEPT !.hooks = @ \o << <<"out", m.memory[PORTS]>>, <<"inp", input>>,
                                      <<"display", screen>> >> ]

io(m, input) ==
    LET outputs == m.memory[DIRECTIONS]
        inputs  == Not6(outputs)
        value   == BitAnd(m.memory[PORTS], outputs)
        merged  == BitOr(value, BitAnd(input, inputs))
        m1      == [ m EXCEPT !.memory[PORTS] = merged ]
        screen  == << m1.memory[SCREEN], m1.memory[SCREEN + 1],
                      m1.memory[SCREEN + 2], m1.memory[SCREEN + 3] >>
    IN  [ m1 EXCEPT !.hooks = @ \o << <<"out", value>>, <<"inp", input>>,
                                      <<"display", screen>> >> ]

(***************************************************************************)
(* Machine.reset                                                           *)
(***************************************************************************)
\* a reset that clears the RAM as well
reset_clears(m, input) ==
    LET m1 == set(m,  Name("A"), RESET["A"], FALSE)
        m2 == set(m1, Name("B"), RESET["B"], FALSE)
        m3 == set(m2, Name("I"), RESET["I"], FALSE)
        m4 == set(m3, Name("S"), RESET["S"], FALSE)
        m5 == set(m4, Name("F"), RESET["F"], FALSE)
        m6 == [ m5 EXCEPT !.clock = 0,
                          !.memory = [ a \in 0..63 |-> IF a < SCREEN THEN 0 ELSE @[a] ] ]
    IN  io(tick(m6), input)

reset(m, input) ==
    LET m1 == set(m,  Name("A"), RESET["A"], FALSE)
        m2 == set(m1, Name("B"), RESET["B"], FALSE)
        m3 == set(m2, Name("I"), RESET["I"], FALSE)
        m4 == set(m3, Name("S"), RESET["S"], FALSE)
        m5 == set(m4, Name("F"), RESET["F"], FALSE)
        m6 == [ m5 EXCEPT !.clock = 0 ]
    IN  io(tick(m6), input)

(***************************************************************************)
(* Machine.fetch, Machine.locate, Machine.flag                             *)
(***************************************************************************)
\* fetch returns the byte and the machine with I advanced
fetch(m) ==
    LET i == get(m, Name("I"))
    IN  [ byte |-> get(m, Cell(i)), m |-> set(m, Name("I"), i + 1, FALSE) ]

locate(m, address, operand) ==
    IF address = "[_]" THEN Cell(get(m, Cell(operand)))
    ELSE IF address = "[S]" THEN Cell(get(m, Name("S")))
    ELSE IF address = "[B]" THEN Cell(get(m, Name("B")))
    ELSE Address(address)

\* Python truth values handed to set(): True is 1, False is 0, and the
\* value of `x or y` is x when x is true and y otherwise
ZeroOf_unmasked(value) == IF value = 0 THEN 1 ELSE 0
ZeroOf(value)  == IF Mask6(value) = 0 THEN 1 ELSE 0
MinusOf(value) == IF value < 0 THEN 1 ELSE BitAnd(value, 32)
CarryOf(value) == IF value < 0 THEN 1 ELSE BitAnd(value, 192)

flag(m, value) ==
    LET m1 == set(m,  Name("Z"), ZeroOf(value),  FALSE)
        m2 == set(m1, Name("M"), MinusOf(value), FALSE)
    IN  set(m2, Name("C"), CarryOf(value), FALSE)

(***************************************************************************)
(* Machine.operate                                                         *)
(***************************************************************************)
JUMPS == [ jc |-> "C", jnc |-> "C", jm |-> "M", jnm |-> "M", jz |-> "Z", jnz |-> "Z" ]
\* the jump classes with an 'n' in their name
NEGATED == { "jnc", "jnm", "jnz" }
FLAGGED == { "load", "clr", "add", "sub", "and", "or",
             "ror", "rol", "inc", "dec", "pop", "mov" }

\* a branch that is always taken
branch_always(m, opclass, value) == value

\* a conditional jump that is not taken replaces the operand by I
branch(m, opclass, value) ==
    IF opclass \in DOMAIN JUMPS
    THEN LET f == get(m, Name(JUMPS[opclass]))
             stay == IF opclass \in NEGATED THEN f # 0 ELSE f = 0
         IN  IF stay THEN get(m, Name("I")) ELSE value
    ELSE value

\* a CALL that stores nothing
call_nowhere(m, opclass) == m

\* CALL stores I at the (already decremented) stack address
call(m, opclass) ==
    IF opclass = "call"
    THEN set(m, Cell(get(m, Name("S"))), get(m, Name("I")), FALSE)
    ELSE m

\* an arithmetic unit whose add and sub leave the Carry flag out
alu_carryless(opclass, a, c, value) ==
    CASE opclass = "add" -> a + value
      [] opclass = "sub" -> a - value
      [] opclass = "and" -> BitAnd(a, value)
      [] opclass = "or"  -> BitOr(a, value)
      [] opclass = "inc" -> value + 1
      [] opclass = "dec" -> value - 1
      [] opclass = "ror" -> BitOr(BitOr(Shr(value, 1), Shl(BitAnd(value, 1), 6)), Shl(c, 5))
      [] opclass = "rol" -> BitOr(BitOr(Shl(value, 1), Shl(BitAnd(value, 32), 6)), c)
      [] OTHER -> value

\* rotates that shift a 0 in
alu_shifts(opclass, a, c, value) ==
    CASE opclass = "add" -> a + value + c
      [] opclass = "sub" -> a - value - c
      [] opclass = "and" -> BitAnd(a, value)
      [] opclass = "or"  -> BitOr(a, value)
      [] opclass = "inc" -> value + 1
      [] opclass = "dec" -> value - 1
      [] opclass = "ror" -> BitOr(Shr(value, 1), Shl(BitAnd(value, 1), 6))
      [] opclass = "rol" -> BitOr(Shl(value, 1), Shl(BitAnd(value, 32), 6))
      [] OTHER -> value

alu(opclass, a, c, value) ==
    CASE opclass = "add" -> a + value + c
      [] opclass = "sub" -> a - value - c
      [] opclass = "and" -> BitAnd(a, value)
      [] opclass = "or"  -> BitOr(a, value)
      [] opclass = "inc" -> value + 1
      [] opclass = "dec" -> value - 1
      [] opclass = "ror" -> BitOr(BitOr(Shr(value, 1), Shl(BitAnd(value, 1), 6)), Shl(c, 5))
      [] opclass = "rol" -> BitOr(BitOr(Shl(value, 1), Shl(BitAnd(value, 32), 6)), c)
      [] OTHER -> value

\* operate returns the masked value and the machine with its flags updated
\* (raw: the value before masking, which the flags are set from)
operate(m, opcode, value) ==
    LET a  == get(m, Name("A"))
        c  == get(m, Name("C"))
        opclass == OpClass(opcode)
        v1 == branch(m, opclass, value)
        m1 == call(m, opclass)
        v2 == alu(opclass, a, c, v1)
        m2 == IF opclass \in FLAGGED THEN flag(m1, v2) ELSE m1
    IN  [ raw |-> v2, value |-> Mask6(v2), m |-> m2 ]

(***************************************************************************)
(* Machine.execute                                                         *)
(***************************************************************************)
\* pushes that leave S alone
predecrement_never(m, opcode) == m

predecrement(m, opcode) ==
    IF opcode \in PUSHES THEN set(m, Name("S"), get(m, Name("S")) - 1, FALSE) ELSE m

retrieve(m, opcode, operand) ==
    LET source == SOURCES[opcode + 1]
    IN  IF source = "_" THEN operand
        ELSE IF source = "[_]" THEN locate(m, source, operand).cell
        ELSE get(m, locate(m, source, operand))

\* a commit that leaves F to the flags worked out by operate
commit_flags(m, opcode, operand, value) ==
    LET target == TARGETS[opcode + 1]
        where  == IF target = "[_]" THEN Cell(operand) ELSE locate(m, target, operand)
    IN  IF target = "F" THEN m ELSE set(m, where, value, FALSE)

commit(m, opcode, operand, value) ==
    LET target == TARGETS[opcode + 1]
        where  == IF target = "[_]" THEN Cell(operand) ELSE locate(m, target, operand)
    IN  set(m, where, value, FALSE)

\* postbase leaving B alone
postbase_never(m, opcode) == m

postbase(m, opcode) ==
    IF opcode \in BASES THEN set(m, Name("B"), get(m, Name("B")) + 1, FALSE) ELSE m

\* postpop leaving S alone
postpop_never(m, opcode) == m

postpop(m, opcode) ==
    IF opcode \in POPS THEN set(m, Name("S"), get(m, Name("S")) + 1, FALSE) ELSE m

\* execute returns the machine and the value operate worked out
execute(m, opcode, operand) ==
    LET m1 == predecrement(m, opcode)
        value == retrieve(m1, opcode, operand)
        op == operate(m1, opcode, value)
        m2 == commit(op.m, opcode, operand, op.value)
        m3 == postbase(m2, opcode)
    IN  [ raw |-> op.raw, m |-> postpop(m3, opcode) ]

(***************************************************************************)
(* Machine.stopped, Machine.step                                           *)
(***************************************************************************)
\* stopped looking at the cell after I
stopped_next(m) == get(m, Cell(get(m, Name("I")) + 1)) = STOP

stopped(m) == get(m, Cell(get(m, Name("I")))) = STOP

\* step returns the machine, the value returned, and what it fetched and
\* worked out on the way
step(m, input) ==
    IF stopped(m)
    THEN [ ret |-> FALSE, fetched |-> <<>>, raw |-> 0, m |-> m ]
    ELSE LET f1 == fetch(m)
             opcode == f1.byte
             f2 == IF opcode \in IMMEDIATES THEN fetch(f1.m)
                   ELSE [ byte |-> None, m |-> f1.m ]
             ex == execute(f2.m, opcode, f2.byte)
         IN  [ ret |-> TRUE,
               fetched |-> IF opcode \in IMMEDIATES THEN <<opcode, f2.byte>>
                           ELSE <<opcode>>,
               raw |-> ex.raw,
               m |-> io(tick(ex.m), input) ]

(***************************************************************************)
(* Machine.run: steps are executed until one finds STOP or the limit is    *)
(* used up.  `inputs` is what the inp hook returns, step after step; the   *)
(* result is the value returned, the machine and the number of             *)
(* instructions executed.  (Without a limit the loop ends only at STOP.)   *)
(***************************************************************************)
\* a run that gives up one instruction before the limit
RECURSIVE run_short(_, _, _)
RECURSIVE ran_short(_, _, _, _)
ran_short(r, m, limit, inputs) ==
    IF ~r.ret THEN [ ret |-> TRUE, m |-> m, count |-> 0 ]
    ELSE IF limit - 2 <= 0 THEN [ ret |-> FALSE, m |-> r.m, count |-> 1 ]
    ELSE [ run_short(r.m, limit - 1, Tail(inputs)) EXCEPT !.count = @ + 1 ]

run_short(m, limit, inputs) == ran_short(step(m, Head(inputs)), m, limit, inputs)

\* the body of the loop, r being what step() returned
RECURSIVE run(_, _, _)
RECURSIVE ran(_, _, _, _)
ran(r, m, limit, inputs) ==
    IF ~r.ret THEN [ ret |-> TRUE, m |-> m, count |-> 0 ]
    ELSE IF limit - 1 <= 0 THEN [ ret |-> FALSE, m |-> r.m, count |-> 1 ]
    ELSE [ run(r.m, limit - 1, Tail(inputs)) EXCEPT !.count = @ + 1 ]

run(m, limit, inputs) == ran(step(m, Head(inputs)), m, limit, inputs)

(***************************************************************************)
(* Machine.prom, Machine.load: a byte image is a sequence of OSCII symbols *)
(***************************************************************************)
\* rom[:n]
Prefix(image, n) == SubSeq(image, 1, IF Len(image) < n THEN Len(image) ELSE n)

\* for i in range(len(image)): set(i + base, ENCODING[image[i]], prom).  The
\* cells written are distinct and none is PORTS, so each set() call decides
\* the final content of its own cell and of no other.
burn(m, image, base, asprom) ==
    [ m EXCEPT !.memory =
        [ a \in 0..63 |->
            IF a - base \in 0..(Len(image) - 1)
            THEN set(m, Cell(a), ENCODING[image[a - base + 1]], asprom).memory[a]
            ELSE m.memory[a] ] ]

prom(m, rom) == burn(m, Prefix(rom, PROMLEN), PROM, TRUE)

load(m, ram) == burn(m, Prefix(ram, RAMLEN), RAM, FALSE)

(***************************************************************************)
(* Text.  A Python string is a sequence of one-character strings; the      *)
(* names of labels and of operation classes are strings.                   *)
(***************************************************************************)
UPPERCASE ==
    << "A", "B", "C", "D", "E", "F", "G", "H", "I", "J", "K", "L", "M",
       "N", "O", "P", "Q", "R", "S", "T", "U", "V", "W", "X", "Y", "Z" >>

LOWERCASE ==
    << "a", "b", "c", "d", "e", "f", "g", "h", "i", "j", "k", "l", "m",
       "n", "o", "p", "q", "r", "s", "t", "u", "v", "w", "x", "y", "z" >>

DECIMALS == << "0", "1", "2", "3", "4", "5", "6", "7", "8", "9" >>

Range(t) == { t[i] : i \in 1..Len(t) }
Letters == Range(UPPERCASE) \cup Range(LOWERCASE)
OctalDigits == { DECIMALS[i] : i \in 1..8 }
Whitespace == { " ", "\t", "\n", "\r" }
Quotes == { "'", "\"" }

Min(S) == CHOOSE x \in S : \A y \in S : x <= y
Max(S) == CHOOSE x \in S : \A y \in S : x >= y

\* str.lower() and str.upper()
lowerchar(c) ==
    IF \E i \in 1..26 : UPPERCASE[i] = c
    THEN LOWERCASE[CHOOSE i \in 1..26 : UPPERCASE[i] = c] ELSE c

upperchar(c) ==
    IF \E i \in 1..26 : LOWERCASE[i] = c
    THEN UPPERCASE[CHOOSE i \in 1..26 : LOWERCASE[i] = c] ELSE c

lower(t) == [ i \in 1..Len(t) |-> lowerchar(t[i]) ]
upper(t) == [ i \in 1..Len(t) |-> upperchar(t[i]) ]

\* str.strip()
strip(t) ==
    LET keep == { i \in 1..Len(t) : t[i] \notin Whitespace }
    IN  IF keep = {} THEN << >> ELSE SubSeq(t, Min(keep), Max(keep))

\* str.replace(old, new), old not empty: the occurrences from the left that
\* do not overlap
RECURSIVE replace(_, _, _)
replace(t, old, new) ==
    IF Len(t) < Len(old) THEN t
    ELSE IF SubSeq(t, 1, Len(old)) = old
    THEN new \o replace(SubSeq(t, Len(old) + 1, Len(t)), old, new)
    ELSE << t[1] >> \o replace(Tail(t), old, new)

\* the string of a text
RECURSIVE Join(_)
Join(t) == IF Len(t) = 0 THEN "" ELSE t[1] \o Join(Tail(t))

\* int(t, base) for a text of digits
RECURSIVE int(_, _)
int(t, base) ==
    IF Len(t) = 0 THEN 0
    ELSE int(SubSeq(t, 1, Len(t) - 1), base) * base
         + (CHOOSE n \in 0..9 : DECIMALS[n + 1] = t[Len(t)])

(***************************************************************************)
(* class Assembler: the patterns.  Each gives the length of the match of   *)
(* re.match at the start of the text, 0 when there is none.                *)
(***************************************************************************)
\* the length of the longest prefix of t made of characters of S
Run(t, S) ==
    LET others == { i \in 1..Len(t) : t[i] \notin S }
    IN  IF others = {} THEN Len(t) ELSE Min(others) - 1

IDENTIFIER(t) ==
    IF Len(t) > 0 /\ t[1] \in Letters \cup { "_" }
    THEN Run(t, Letters \cup Range(DECIMALS) \cup { "_" }) ELSE 0

OCTAL(t) ==
    IF Len(t) > 1 /\ t[1] \in { "0", "o" } /\ t[2] \in OctalDigits
    THEN 1 + Run(Tail(t), OctalDigits) ELSE 0

DECIMAL(t) ==
    IF Len(t) > 1 /\ t[1] = "d" /\ t[2] \in Range(DECIMALS)
    THEN 1 + Run(Tail(t), Range(DECIMALS)) ELSE 0

\* '.*?' or ".*?": up to the next quote of the same kind
QUOTED(t) ==
    IF Len(t) > 1 /\ t[1] \in Quotes /\ (\E j \in 2..Len(t) : t[j] = t[1])
    THEN Min({ j \in 2..Len(t) : t[j] = t[1] }) ELSE 0

ADDRESS(t) ==
    IF Len(t) > 1 /\ t[1] = "&" /\ IDENTIFIER(Tail(t)) > 0
    THEN 1 + IDENTIFIER(Tail(t)) ELSE 0

LITERAL(t) == IF OCTAL(t) > 0 THEN OCTAL(t) ELSE QUOTED(t)

\* re.match(pattern + '$', t), for a pattern that takes all it can
Whole(n, t) == n > 0 /\ n = Len(t)

\* re.match(QUOTED + '$', t): the lazy .*? stretches to the last character
WholeQUOTED(t) == Len(t) > 1 /\ t[1] \in Quotes /\ t[Len(t)] = t[1]

(***************************************************************************)
(* class Assembler: tables.                                                *)
(***************************************************************************)
OPERANDS ==
    << "A",   "B",   "_",   "",    "C",   "M",   "Z",   "",
       "A",   "B",   "A",   "",    "_",   "_",   "_",   "",
       "A",   "B",   "A",   "",    "_",   "_",   "_",   "",
       "A",   "B",   "",    "",    "A",   "B",   "F",   "",
       "A",   "B",   "_",   "",    "A",   "B",   "F",   "",
       "A",   "B",   "",    "",    "A",   "B",   "F",   "",
       "A",   "A",   "A",   "",    "A",   "A",   "A",   "",
       "A",   "A",   "A",   "",    "A",   "A",   "A",   "" >>

DIRECTANDS ==
    << "",    "",    "",    "",    "",    "",    "",    "",
       "[_]", "[_]", "[B]", "",    "",    "",    "",    "",
       "[_]", "[_]", "[B]", "",    "",    "",    "",    "",
       "",    "",    "",    "",    "",    "",    "",    "",
       "",    "",    "",    "",    "",    "",    "",    "",
       "B",   "A",   "",    "",    "_",   "_",   "_",   "",
       "_",   "B",   "[B]", "",    "_",   "B",   "[B]", "",
       "_",   "B",   "[B]", "",    "_",   "B",   "[B]", "" >>

SYNONYMS ==
    [ clear |-> "clr", store |-> "save", sto |-> "save", pull |-> "pop",
      move |-> "load", mov |-> "load", return |-> "ret", halt |-> "stop" ]

(***************************************************************************)
(* class Assembler.  A value is tagged with its Python type: a byte of an  *)
(* encoding is a number or the name of a label, and a function returns a   *)
(* list, None, or raises.                                                  *)
(***************************************************************************)
Number(n) == [ type |-> "int", value |-> n ]
Ref(s) == [ type |-> "str", value |-> s ]
List(s) == [ type |-> "list", value |-> s ]
Raise(e) == [ type |-> "raise", value |-> e ]
Nothing == [ type |-> "None" ]

\* labels[name] = value, value tagged
Bind(labels, name, value) ==
    [ n \in DOMAIN labels \cup { name } |-> IF n = name THEN value ELSE labels[n] ]

\* Assembler()
Assembler ==
    [ labels |-> [ n \in {} |-> 0 ],
      errors |-> << >>,
      listing |-> << >>,
      source |-> "(unknown)",
      code |-> [ i \in 1..PROMLEN |-> Number(STOP) ],
      encoded |-> << >> ]

\* A call of assemble(): the assembler (self) and the local variables.
\* raised names the exception that ended the call, returned is its result.
Frame(self) ==
    [ self |-> self, count |-> 0, home |-> FALSE, address |-> PROM,
      raised |-> "", returned |-> << >> ]

\* log(): the listing keeps the address and what is formatted into the
\* line: the label of a label line, or the text and the bytes of a statement
log(f, label, text, bytes, address) ==
    [ f EXCEPT !.self.listing =
        Append(@, [ address |-> address, label |-> label,
                    text |-> Join(text), bytes |-> bytes ]) ]

\* error(): the message '%s(%d): %s: %s' and what it names
error(f, line, tier, message, about) ==
    [ f EXCEPT !.self.errors =
        Append(@, [ source |-> f.self.source, line |-> line, tier |-> tier,
                    message |-> message, about |-> about ]) ]

immediate(self, word, labels) ==
    IF Whole(ADDRESS(word), word)
    THEN IF labels /\ Join(Tail(word)) \in DOMAIN self.labels
         THEN self.labels[Join(Tail(word))]
         ELSE Ref(Join(Tail(word)))
    ELSE IF Whole(OCTAL(word), word)
    THEN Number(int(Tail(word), 8))
    ELSE IF Len(word) = 1 /\ word[1] \in OctalDigits
    THEN Number(int(word, 8))
    ELSE IF Whole(DECIMAL(word), word)
    THEN Number(int(Tail(word), 10))
    ELSE IF WholeQUOTED(word) /\ Len(word) = 3 /\ word[2] \in Symbols
    THEN Number(ENCODING[word[2]])
    ELSE Nothing

\* The character that stands for a quoted comma while the line is split.
\* No text here holds a backquote of its own.
Backquote == "backquote"

\* line.replace('" "', '"_"') and the three replacements after it
protect(line) ==
    replace(replace(replace(replace(line,
        << "\"", " ", "\"" >>, << "\"", "_", "\"" >>),
        << "'", " ", "'" >>, << "'", "_", "'" >>),
        << "\"", ",", "\"" >>, << "\"", Backquote, "\"" >>),
        << "'", ",", "'" >>, << "'", Backquote, "'" >>)

\* line.split(' '), each piece split(','), the empty words dropped: the
\* runs of characters other than space and comma
split(line) ==
    LET gap(i) == i < 1 \/ i > Len(line) \/ line[i] \in { " ", "," }
        starts == { i \in 1..Len(line) : ~gap(i) /\ gap(i - 1) }
        start(k) == CHOOSE i \in starts : Cardinality({ j \in starts : j < i }) = k - 1
        end(i) == Min({ j \in i..Len(line) : gap(j + 1) })
    IN  [ k \in 1..Cardinality(starts) |->
            replace(SubSeq(line, start(k), end(start(k))), << Backquote >>, << "," >>) ]

\* value = self.immediate(word); [ opcode, value ] unless value is None
operand(opcode, value) ==
    IF value.type = "None" THEN Nothing ELSE List(<< Number(opcode), value >>)

\* two operands, right = words[2].replace('+', '')
attempt3(self, opcode, left, right) ==
    IF OPERANDS[opcode + 1] = "" \/ DIRECTANDS[opcode + 1] = "" THEN Nothing
    ELSE IF Join(upper(left)) # OPERANDS[opcode + 1] THEN Nothing
    ELSE IF DIRECTANDS[opcode + 1] = "_"
    THEN operand(opcode, immediate(self, replace(right, << "_" >>, << " " >>), FALSE))
    ELSE IF DIRECTANDS[opcode + 1] = "[_]" /\ Len(right) = 0
    THEN Raise("IndexError")
    ELSE IF DIRECTANDS[opcode + 1] = "[_]" /\ right[1] = "["
    THEN operand(opcode,
             immediate(self, replace(SubSeq(right, 2, Len(right) - 1),
                                     << "_" >>, << " " >>), FALSE))
    ELSE IF Join(upper(right)) = DIRECTANDS[opcode + 1]
    THEN List(<< Number(opcode) >>)
    ELSE Nothing

\* One turn of the loop over the opcodes: None stands for continue.
attempt(self, opcode, words) ==
    IF Len(words) = 1
    THEN IF OPERANDS[opcode + 1] # "" THEN Nothing ELSE List(<< Number(opcode) >>)
    ELSE IF Len(words) = 2
    THEN IF OPERANDS[opcode + 1] = "" THEN Nothing
         ELSE IF OPERANDS[opcode + 1] = "_"
         THEN operand(opcode,
                  immediate(self, replace(words[2], << "_" >>, << " " >>), FALSE))
         ELSE IF Join(upper(words[2])) = OPERANDS[opcode + 1]
         THEN List(<< Number(opcode) >>)
         ELSE Nothing
    ELSE IF Len(words) = 3
    THEN attempt3(self, opcode, words[2], replace(words[3], << "+" >>, << >>))
    ELSE Nothing

\* words[0].lower(), and its synonym
opclassof(word) ==
    IF Join(lower(word)) \in DOMAIN SYNONYMS
    THEN SYNONYMS[Join(lower(word))] ELSE Join(lower(word))

\* the first opcode of the operation class whose turn returns
try(self, opclass, words) ==
    LET returns == { opcode \in 0..63 :
                       /\ OPCODES[opcode + 1] = opclass
                       /\ attempt(self, opcode, words).type # "None" }
    IN  IF returns = {} THEN Nothing ELSE attempt(self, Min(returns), words)

trywords(self, words) ==
    IF Len(words) = 0 THEN Raise("IndexError")
    ELSE try(self, opclassof(words[1]), [ k \in 1..Len(words) |-> strip(words[k]) ])

instruction(self, line) == trywords(self, split(protect(strip(line))))

\* 'o%02o' % byte
RECURSIVE octal(_)
octal(n) == IF n < 8 THEN << DECIMALS[n + 1] >> ELSE Append(octal(n \div 8), DECIMALS[(n % 8) + 1])

\* the text of each byte of an encoding, to be joined with ', '
dump(encoding) ==
    [ i \in 1..Len(encoding) |->
        IF encoding[i].type = "str" THEN "&" \o encoding[i].value
        ELSE Join(<< "o" >> \o (IF encoding[i].value < 8 THEN << "0" >> ELSE << >>)
                  \o octal(encoding[i].value)) ]

\* an apply() that checks no bound: the image is filled round and round
RECURSIVE apply_wraps(_, _, _)
apply_wraps(f, encoding, lineno) ==
    IF Len(encoding) = 0 THEN f
    ELSE apply_wraps([ f EXCEPT !.self.code[((f.address + PROMLEN - PROM) % PROMLEN) + 1] = encoding[1],
                                !.address = (f.address + 1) % 64 ],
                     Tail(encoding), lineno)

RECURSIVE apply(_, _, _)
apply(f, encoding, lineno) ==
    IF Len(encoding) = 0 THEN f
    ELSE IF f.address < PROM \/ f.address >= PROM + PROMLEN
    THEN apply(error(f, lineno, "Error", "Code address is outside PROM space.", ""),
               Tail(encoding), lineno)
    ELSE apply([ f EXCEPT !.self.code[f.address - PROM + 1] = encoding[1],
                          !.address = (f.address + 1) % 64 ],
               Tail(encoding), lineno)

\* the label named after the colon of a line, if any
LabelName(line) ==
    IF Len(line) > 1 /\ line[1] = ":"
    THEN SubSeq(line, 2, 1 + IDENTIFIER(Tail(line))) ELSE << >>

\* the literal of a line that matches :(IDENTIFIER)=(LITERAL), if any
LabelValue(line) ==
    IF /\ Len(LabelName(line)) > 0
       /\ Len(line) > Len(LabelName(line)) + 1
       /\ line[Len(LabelName(line)) + 2] = "="
    THEN SubSeq(line, Len(LabelName(line)) + 3,
                Len(LabelName(line)) + 2
                + LITERAL(SubSeq(line, Len(LabelName(line)) + 3, Len(line))))
    ELSE << >>

\* if label in self.labels: a warning
redefining(f, label) ==
    IF label \in DOMAIN f.self.labels
    THEN error(f, f.count, "Warning", "Redefining label", label) ELSE f

\* address = self.immediate(m.group(2)); formatting None with %02o raises
bindabsolute(f, label, address) ==
    IF address.type = "None"
    THEN [ f EXCEPT !.self.labels = Bind(@, label, Nothing), !.raised = "TypeError" ]
    ELSE log([ f EXCEPT !.self.labels = Bind(@, label, address),
                        !.address = address.value ],
             label, << >>, << >>, address)

absolute(f, line) ==
    bindabsolute(redefining(f, Join(LabelName(line))), Join(LabelName(line)),
                 immediate(f.self, LabelValue(line), FALSE))

bindlabel(f, label) ==
    log([ f EXCEPT !.self.labels = Bind(@, label, Number(f.address)), !.home = TRUE ],
        label, << >>, << >>, Number(f.address))

normal(f, line) == bindlabel(redefining(f, Join(LabelName(line))), Join(LabelName(line)))

\* The quoted strings of a literal data line, character by character; quote
\* is the open quote, "" outside the strings.  rest is what is left of the
\* line when it cannot be parsed.
\* a loop that takes the opening quote mark for a character of the string
RECURSIVE literal_marks(_, _, _)
literal_marks(line, quote, encoding) ==
    IF Len(line) = 0
    THEN [ encoding |-> encoding, rest |-> << >>, raised |-> "" ]
    ELSE IF quote = ""
    THEN IF line[1] \in { " ", "\t" } THEN literal_marks(Tail(line), "", encoding)
         ELSE IF line[1] \in Quotes
         THEN literal_marks(Tail(line), line[1], Append(encoding, Number(ENCODING[line[1]])))
         ELSE [ encoding |-> encoding, rest |-> line, raised |-> "" ]
    ELSE IF line[1] = quote THEN literal_marks(Tail(line), "", encoding)
    ELSE IF line[1] \notin Symbols
    THEN [ encoding |-> encoding, rest |-> << >>, raised |-> "KeyError" ]
    ELSE literal_marks(Tail(line), quote, Append(encoding, Number(ENCODING[line[1]])))

RECURSIVE literal(_, _, _)
literal(line, quote, encoding) ==
    IF Len(line) = 0
    THEN [ encoding |-> encoding, rest |-> << >>, raised |-> "" ]
    ELSE IF quote = ""
    THEN IF line[1] \in { " ", "\t" } THEN literal(Tail(line), "", encoding)
         ELSE IF line[1] \in Quotes THEN literal(Tail(line), line[1], encoding)
         ELSE [ encoding |-> encoding, rest |-> line, raised |-> "" ]
    ELSE IF line[1] = quote THEN literal(line, "", encoding)
    ELSE IF line[1] \notin Symbols
    THEN [ encoding |-> encoding, rest |-> << >>, raised |-> "KeyError" ]
    ELSE literal(Tail(line), quote, Append(encoding, Number(ENCODING[line[1]])))

\* if encoding: log and apply
place(f, encoding, original) ==
    IF Len(encoding) > 0
    THEN apply(log(f, "", Prefix(original, 17), dump(encoding), Number(f.address)),
               encoding, f.count)
    ELSE f

data(f, original, parsed) ==
    IF parsed.raised # "" THEN [ f EXCEPT !.raised = parsed.raised ]
    ELSE IF Len(parsed.rest) > 0
    THEN place(error(f, f.count, "Error", "Could not parse literal data", Join(parsed.rest)),
               parsed.encoding, original)
    ELSE place(f, parsed.encoding, original)

\* an instruction, literal data, or a line that is neither
encode(f, line, encoding) ==
    IF encoding.type = "list"
    THEN apply(log(f, "", Prefix(line, 20), dump(encoding.value), Number(f.address)),
               encoding.value, f.count)
    ELSE IF encoding.type = "raise"
    THEN [ f EXCEPT !.raised = encoding.value ]
    ELSE IF line[1] = "="
    THEN data(f, strip(Tail(line)), literal(strip(Tail(line)), "", << >>))
    ELSE error(f, f.count, "Error", "Could not parse line", Join(line))

\* the label of the first line that is not a label
sethome(f) ==
    [ log([ f EXCEPT !.self.labels = Bind(@, "home", Number(f.address)) ],
          "home", << >>, << >>, Number(f.address)) EXCEPT !.home = TRUE ]

parse(f, line) ==
    IF Len(LabelValue(line)) > 0 THEN absolute(f, line)
    ELSE IF Len(LabelName(line)) > 0 THEN normal(f, line)
    ELSE encode(f, line, instruction(f.self, line))

\* one turn of the loop over the lines
stripped(f, line) ==
    IF Len(line) = 0 THEN f
    ELSE IF line[1] = ";" THEN log(f, "", line, << >>, Nothing)
    ELSE IF ~f.home /\ line[1] # ":" THEN parse(sethome(f), line)
    ELSE parse(f, line)

statement(f, line) == stripped([ f EXCEPT !.count = @ + 1 ], strip(line))

RECURSIVE lines(_, _, _)
lines(f, source, i) ==
    IF i > Len(source) \/ f.raised # "" THEN f
    ELSE lines(statement(f, source[i]), source, i + 1)

\* a fixup that takes no label for defined: every reference becomes zero
resolve_unbound(labels, byte) ==
    IF byte.type = "str" THEN 0 ELSE byte.value

\* the byte of a cell of the image once the labels are known
resolve(labels, byte) ==
    IF byte.type = "str"
    THEN IF byte.value \in DOMAIN labels THEN labels[byte.value].value ELSE 0
    ELSE byte.value

\* The relocations: an error for every label that is not defined, and
\* OSCII[byte] raises at the first byte above 63.
fixup(f) ==
    LET code == f.self.code
        labels == f.self.labels
        toobig == { i \in 1..PROMLEN : resolve(labels, code[i]) > 63 }
        unknown(i) == /\ code[i].type = "str"
                      /\ code[i].value \notin DOMAIN labels
                      /\ \A j \in toobig : i < j
        missing == SelectSeq([ i \in 1..PROMLEN |-> i ], unknown)
        errors == [ k \in 1..Len(missing) |->
                      [ source |-> f.self.source, line |-> f.count, tier |-> "Error",
                        message |-> "Never resolved address",
                        about |-> code[missing[k]].value ] ]
    IN  IF f.raised # "" THEN f
        ELSE IF toobig # {}
        THEN [ f EXCEPT !.self.errors = @ \o errors, !.raised = "IndexError" ]
        ELSE [ f EXCEPT !.self.errors = @ \o errors,
                        !.self.encoded =
                            IF Len(f.self.errors) + Len(missing) = 0
                            THEN [ i \in 1..PROMLEN |-> OSCII[resolve(labels, code[i]) + 1] ]
                            ELSE @,
                        !.returned =
                            [ i \in 1..PROMLEN |-> OSCII[resolve(labels, code[i]) + 1] ] ]

\* assemble(source) for a source given as a list of lines
assemble(self, source) ==
    fixup(lines(Frame([ self EXCEPT !.source = "input" ]), source, 1))

(***************************************************************************)
(* class Debugger: the machine, the assembler and the messages.            *)
(***************************************************************************)
\* a debugger that burns whatever assemble() returns
Debugger_assemble_burns(d, f) ==
    IF f.raised # "" THEN [ d EXCEPT !.assembler = f.self ]
    ELSE [ d EXCEPT !.assembler = f.self, !.machine = prom(d.machine, f.returned) ]

\* Debugger.assemble(code), f being the call self.assembler.assemble(code)
\* of the new Assembler()
Debugger_assemble(d, f) ==
    IF f.raised # "" THEN [ d EXCEPT !.assembler = f.self ]
    ELSE IF Len(f.self.errors) > 0
    THEN [ d EXCEPT !.assembler = [ f.self EXCEPT !.listing = << >> ],
                    !.messages = f.self.errors ]
    ELSE [ d EXCEPT !.assembler = f.self, !.machine = prom(d.machine, f.returned) ]

(***************************************************************************)
(* Bounds of the exploration.                                              *)
(***************************************************************************)
MaxSteps == 2
MaxPushes == 2
MaxSets == 1
MaxResets == 1

\* operand bytes tried with every opcode: a quick-page cell, PORTS, the
\* first and the last PROM cell
OperandVals == { 0, PORTS, PROM, 63 }
\* what the inp hook may return
InpVals == { 0, 21, 63 }
\* direction registers: all pins outputs; the low three pins inputs
Dirs == { 63, 56 }

PushOps == { 32, 33, 38 }
PopOps == { 24, 25, 30 }

\* Memory and registers are created with unknown() values: any content is
\* a state after construction.  The explored ones hold a program at I, STOP
\* in the rest of PROM and a fixed pattern in RAM.
Garbage(a) == (a * 7 + 3) % 64

Image(prog, origin, dir) ==
    [ a \in 0..63 |->
        IF \E k \in 1..Len(prog) : (origin + k - 1) % 64 = a
        THEN prog[CHOOSE k \in 1..Len(prog) : (origin + k - 1) % 64 = a]
        ELSE IF a >= PROM THEN STOP
        ELSE IF a = DIRECTIONS THEN dir
        ELSE Garbage(a) ]

RegBanks ==
    { RESET,
      [ A |-> 33, B |-> 63, I |-> PROM, S |-> 25,    F |-> 7 ],
      [ A |-> 63, B |-> 24, I |-> PROM, S |-> 0,     F |-> 4 ],
      [ A |-> 32, B |-> 21, I |-> 40,   S |-> 8,     F |-> 2 ],
      [ A |-> 1,  B |-> 7,  I |-> 62,   S |-> 12,    F |-> 1 ] }

StackBanks ==
    { [ A |-> 5,  B |-> 9,  I |-> PROM, S |-> STACK, F |-> 3 ],
      [ A |-> 61, B |-> 0,  I |-> PROM, S |-> 9,     F |-> 4 ] }

RECURSIVE SeqsOf(_, _)
SeqsOf(S, n) ==
    IF n = 0 THEN { <<>> }
    ELSE { Append(q, x) : q \in SeqsOf(S, n - 1), x \in S }

Scenario(prog, regs, dir, clk, steps, sets, resets) ==
    [ memory |-> Image(prog, regs["I"], dir), registers |-> regs, clock |-> clk,
      budget |-> [ steps |-> steps, sets |-> sets, resets |-> resets ] ]

\* one instruction of any opcode
OneInstr ==
    { Scenario(<<op, x>>, regs, dir, 511, MaxSteps, 0, 0) :
        op \in 0..63, x \in OperandVals, regs \in RegBanks, dir \in Dirs }

\* programs of n pushes followed by n pops
PushPops ==
    UNION { { a \o b : a \in SeqsOf(PushOps, n), b \in SeqsOf(PopOps, n) } :
            n \in 1..MaxPushes }

StackProgs ==
    { Scenario(prog, regs, 63, 7, 2 * MaxPushes, 0, 0) :
        prog \in PushPops, regs \in StackBanks }

\* machines poked from outside
Poked ==
    { Scenario(<<>>, regs, dir, 0, 1, MaxSets, MaxResets) :
        regs \in { b \in RegBanks : b["I"] = PROM /\ b["S"] # 0 }, dir \in Dirs }

\* three LOAD A,[B] in a row, from the registers of a reset
BaseLoads == { Scenario(<<10, 10, 10>>, RESET, 63, 1, 3, 0, 0) }

\* a machine that was constructed, reset and given a program in PROM, as
\* the tests of the module do before they run it
Powered(prog, dir, steps) ==
    LET m == reset(Machine(Image(prog, PROM, dir),
                           [ A |-> 33, B |-> 63, I |-> 40, S |-> 25, F |-> 7 ],
                           7, <<>>), 0)
    IN  [ memory |-> m.memory, registers |-> m.registers, clock |-> m.clock,
          budget |-> [ steps |-> steps, sets |-> 0, resets |-> 0 ] ]

\* load A, o10; load B, o22; push A; push B; pop F; stop
TestRegisters == << 44, 8, 45, 18, 32, 33, 30, 42 >>

\* call PROM+3; stop; return
CallReturn == << 34, PROM + 3, 42, 26 >>

\* load A,"*"; save A,[o07]; load B,o10; load A,"A";
\* :loop push A; add A,o01; dec B; jnz &loop; stop
TestStack == << 44, 45, 16, 7, 45, 8, 44, 1, 32, 48, 1, 37, 22, PROM + 8, 42 >>

\* ROL A and ROR A
Rotates == { 28, 36 }

\* I and S at the last address
LastCells == [ A |-> 0, B |-> 0, I |-> 63, S |-> 63, F |-> 0 ]

\* eight pushes in a row
EightPushes == << 32, 33, 38, 32, 33, 38, 32, 33 >>

Tests ==
    { Powered(TestRegisters, 63, 6), Powered(CallReturn, 63, 3),
      Powered(TestStack, 63, 37) }
    \cup { Scenario(EightPushes, regs, 63, 7, 9, 0, 0) :
             regs \in { b \in StackBanks : b["S"] = STACK } }
    \cup { Scenario(<< 24 >>, LastCells, 63, 7, 1, 0, 0) }
    \cup { Scenario(<< op >>, [ RESET EXCEPT !["A"] = a, !["F"] = f ], 63, 7, 1, 0, 0) :
             op \in Rotates, a \in 0..63, f \in { 0, 4, 5 } }

Scenarios == OneInstr \cup StackProgs \cup Poked \cup BaseLoads \cup Tests

SetTargets == { Name("A"), Name("I"), Name("C"),
                Cell(0), Cell(PORTS), Cell(PROM), Cell(64 + 63) }
SetVals == { 5, 64 + 42 }

Roms == { << "A", "%", "\\" >>, [ i \in 1..(PROMLEN + 1) |-> "." ] }
Rams == { << "O", "C", "T", "O" >>, [ i \in 1..(RAMLEN + 1) |-> "%" ] }

\* what the last call was: its name, the registers before it, the opcode
\* a step found at I, the value a step worked out before masking, and the
\* address and prom argument of a set
Called(name, opcode, raw, address, asprom) ==
    [ op |-> name, was |-> registers, opcode |-> opcode, raw |-> raw,
      address |-> address, prom |-> asprom ]

NoOp(name) == Called(name, -1, 0, Cell(0), FALSE)

\* what the debugger last assembled: the source, what assemble() returned or
\* raised, and the memory before; no source yet
NoAssembly(mem) == [ source |-> << >>, returned |-> << >>, raised |-> "", was |-> mem ]

Init ==
    \E sc \in Scenarios :
        /\ memory = sc.memory
        /\ registers = sc.registers
        /\ clock = sc.clock
        /\ budget = sc.budget
        /\ hooks = <<>>
        /\ fetched = <<>>
        /\ result = "none"
        /\ lastop = NoOp("init")
        /\ pushed = <<>>
        /\ popped = <<>>
        /\ s0 = 0
        /\ assembler = Assembler
        /\ messages = << >>
        /\ assembly = NoAssembly(sc.memory)

Current == Machine(memory, registers, clock, <<>>)

Becomes(m) ==
    /\ memory' = m.memory
    /\ registers' = m.registers
    /\ clock' = m.clock
    /\ hooks' = m.hooks

ForgetStack ==
    /\ pushed' = <<>>
    /\ popped' = <<>>
    /\ s0' = 0

\* the record of the pushes and pops executed in a row
TrackStack(opcode, m) ==
    IF opcode \in PushOps
    THEN LET v == registers[SOURCES[opcode + 1]]
         IN  IF popped = <<>>
             THEN /\ pushed' = Append(pushed, v)
                  /\ popped' = popped
                  /\ s0' = IF pushed = <<>> THEN registers["S"] ELSE s0
             ELSE /\ pushed' = <<v>>
                  /\ popped' = <<>>
                  /\ s0' = registers["S"]
    ELSE IF opcode \in PopOps /\ Len(popped) < Len(pushed)
    THEN /\ pushed' = pushed
         /\ popped' = Append(popped, m.registers[TARGETS[opcode + 1]])
         /\ s0' = s0
    ELSE ForgetStack

\* step(), the inp hook returning one of `inputs`
Stepping(inputs) ==
    /\ budget.steps > 0
    /\ \E input \in inputs :
        LET r == step(Current, input)
            opcode == memory[registers["I"]]
        IN  /\ Becomes(r.m)
            /\ fetched' = r.fetched
            /\ result' = r.ret
            /\ lastop' = Called("step", opcode, r.raw, Cell(0), FALSE)
            /\ budget' = [ budget EXCEPT !.steps = @ - 1 ]
            /\ IF r.ret THEN TrackStack(opcode, r.m)
               ELSE UNCHANGED <<pushed, popped, s0>>
            /\ UNCHANGED dvars

Step == Stepping(InpVals)

Reset ==
    /\ budget.resets > 0
    /\ \E input \in InpVals : Becomes(reset(Current, input))
    /\ lastop' = NoOp("reset")
    /\ budget' = [ budget EXCEPT !.resets = @ - 1 ]
    /\ ForgetStack
    /\ UNCHANGED <<fetched, result, dvars>>

Set ==
    /\ budget.sets > 0
    /\ \E address \in SetTargets, value \in SetVals, asprom \in BOOLEAN :
        /\ Becomes(set(Current, address, value, asprom))
        /\ lastop' = Called("set", -1, value, address, asprom)
    /\ budget' = [ budget EXCEPT !.sets = @ - 1 ]
    /\ ForgetStack
    /\ UNCHANGED <<fetched, result, dvars>>

Prom ==
    /\ budget.sets > 0
    /\ \E rom \in Roms : Becomes(prom(Current, rom))
    /\ lastop' = NoOp("prom")
    /\ budget' = [ budget EXCEPT !.sets = @ - 1 ]
    /\ ForgetStack
    /\ UNCHANGED <<fetched, result, dvars>>

Load ==
    /\ budget.sets > 0
    /\ \E ram \in Rams : Becomes(load(Current, ram))
    /\ lastop' = NoOp("load")
    /\ budget' = [ budget EXCEPT !.sets = @ - 1 ]
    /\ ForgetStack
    /\ UNCHANGED <<fetched, result, dvars>>

Next == Step \/ Reset \/ Set \/ Prom \/ Load

Spec == Init /\ [][Next]_vars

TypeOK ==
    /\ \A a \in 0..63 : memory[a] \in 0..63
    /\ \A r \in REGISTERS : registers[r] \in 0..63

(***************************************************************************)
(* A session of the debugger: a source is assembled, then the machine is   *)
(* stepped.  The sources are the short programs made of a few kinds of     *)
(* line, and the single instructions made of a mnemonic and the operands   *)
(* of each shape.                                                          *)
(***************************************************************************)
MaxLines == 3
MaxGo == 1

LineKinds ==
    { << "s", "t", "o", "p" >>, << "j", "n", "z", " ", "&", "l", "o", "o", "p" >>,
      << ":", "l", "o", "o", "p" >>, << ":", "x", "=", "o", "3", "0" >>,
      << ":", "x", "=", "o", "2", "0" >>, << "=", " ", "'", "O", "C", "'" >>,
      << "b", "o", "g", "u", "s" >>, << ";", " ", "c" >> }

Programs == UNION { SeqsOf(LineKinds, n) : n \in 1..MaxLines }

\* The lines of the other kinds: no word at all, literal data of two
\* strings, of a letter that OSCII has not, of four and of twenty-one
\* symbols, labels given as a decimal, a quoted symbol and the last
\* address, a reference to such a label, and an operand above 63.  They
\* make, with the lines above, the programs of at most MaxMixed lines.
MaxMixed == 2

MoreKinds ==
    { << "," >>,
      << "=", " ", "'", "A", "B", "'", " ", "'", "C", "D", "'" >>,
      << "=", " ", "'", "a", "'" >>,
      << "=", " ", "'", "O", "C", "T", "O", "'" >>,
      << "=", " ", "'", "O", "C", "T", "O", "P", "U", "S", "O", "C", "T", "O", "P", "U", "S", "O", "C", "T", "O", "P", "U", "S", "'" >>,
      << ":", "x", "=", "d", "1", "6" >>,
      << ":", "x", "=", "'", "*", "'" >>,
      << ":", "x", "=", "o", "7", "7" >>,
      << "j", "n", "z", " ", "&", "x" >>,
      << "l", "o", "a", "d", " ", "A", ",", " ", "d", "6", "4" >> }

Mixed == UNION { SeqsOf(LineKinds \cup MoreKinds, n) : n \in 1..MaxMixed }

Mnemonics ==
    { << "c", "l", "r" >>, << "j", "m", "p" >>, << "l", "o", "a", "d" >>, << "j", "c" >>,
      << "j", "m" >>, << "j", "z" >>, << "s", "a", "v", "e" >>, << "j", "n", "c" >>,
      << "j", "n", "m" >>, << "j", "n", "z" >>, << "p", "o", "p" >>, << "r", "e", "t" >>,
      << "q", "l", "3" >>, << "r", "o", "l" >>, << "i", "n", "c" >>, << "q", "s", "3" >>,
      << "p", "u", "s", "h" >>, << "c", "a", "l", "l" >>, << "r", "o", "r" >>, << "d", "e", "c" >>,
      << "s", "t", "o", "p" >>, << "a", "d", "d" >>, << "a", "n", "d" >>, << "s", "u", "b" >>,
      << "o", "r" >>, << "c", "l", "e", "a", "r" >>, << "h", "a", "l", "t" >>, << "m", "o", "v" >>,
      << "m", "o", "v", "e" >>, << "p", "u", "l", "l" >>, << "r", "e", "t", "u", "r", "n" >>, << "s", "t", "o" >>,
      << "s", "t", "o", "r", "e" >>, << "L", "O", "A", "D" >> }

\* the operand of a one-operand statement, the left one of two
Lefts ==
    { << "A" >>, << "B" >>, << "F" >>, << "C" >>,
      << "a" >>, << "o", "2", "5" >>, << "&", "h", "o", "m", "e" >>, << "'", "*", "'" >> }

\* the right operand
Rights ==
    { << "A" >>, << "B" >>, << "o", "2", "5" >>, << "[", "o", "2", "5", "]" >>,
      << "[", "B", "]" >>, << "[", "B", "+", "]" >>, << "&", "h", "o", "m", "e" >> }

Instructions ==
    Mnemonics
    \cup { m \o << " " >> \o l : m \in Mnemonics, l \in Lefts }
    \cup { m \o << " " >> \o l \o << ",", " " >> \o r :
             m \in Mnemonics, l \in { << "A" >>, << "B" >>, << "F" >> }, r \in Rights }

Sources == Programs \cup Mixed \cup { << line >> : line \in Instructions }

\* Debugger(): a new machine, reset, and a new assembler
DebugInit ==
    \E dir \in Dirs, input \in InpVals :
        LET m == reset(Machine([ a \in 0..63 |-> IF a = DIRECTIONS THEN dir ELSE Garbage(a) ],
                               [ A |-> 33, B |-> 63, I |-> 40, S |-> 25, F |-> 7 ],
                               0, << >>), input)
        IN  /\ memory = m.memory
            /\ registers = m.registers
            /\ clock = m.clock
            /\ hooks = << >>
            /\ budget = [ steps |-> 0, sets |-> 0, resets |-> 0 ]
            /\ fetched = << >>
            /\ result = "none"
            /\ lastop = NoOp("init")
            /\ pushed = << >>
            /\ popped = << >>
            /\ s0 = 0
            /\ assembler = Assembler
            /\ messages = << >>
            /\ assembly = NoAssembly(m.memory)

Debugger == [ machine |-> Current, assembler |-> assembler, messages |-> messages ]

\* the command: code is assembled into f and the debugger becomes d
Assembles(code, f, d) ==
    /\ Becomes(d.machine)
    /\ assembler' = d.assembler
    /\ messages' = d.messages
    /\ assembly' = [ source |-> code, returned |-> f.returned, raised |-> f.raised,
                     was |-> memory ]
    /\ lastop' = NoOp("assemble")
    /\ budget' = [ budget EXCEPT !.steps = MaxGo ]
    /\ ForgetStack
    /\ UNCHANGED << fetched, result >>

Assembling(code, f) == Assembles(code, f, Debugger_assemble(Debugger, f))

Assemble ==
    /\ lastop.op = "init"
    /\ \E code \in Sources : Assembling(code, assemble(Assembler, code))

DebugNext == Assemble \/ Step

DebugSpec == DebugInit /\ [][DebugNext]_vars

(***************************************************************************)
(* One set() on a new machine: every cell, the addresses above 077 that    *)
(* set() masks, every register; every value of six bits and two of more;   *)
(* with and without prom.                                                  *)
(***************************************************************************)
LatchTargets ==
    { Cell(a) : a \in (0..63) \cup { 64 + PORTS, 64 + 63 } }
    \cup { Name(r) : r \in REGISTERS }

LatchVals == (0..63) \cup { 64 + 42, 255 }

Latch ==
    /\ lastop.op = "init"
    /\ \E address \in LatchTargets, value \in LatchVals, asprom \in BOOLEAN :
        /\ Becomes(set(Current, address, value, asprom))
        /\ lastop' = Called("set", -1, value, address, asprom)
    /\ ForgetStack
    /\ UNCHANGED <<budget, fetched, result, dvars>>

LatchSpec == DebugInit /\ [][Latch]_vars

(***************************************************************************)
(* A machine left running after reset(), for as long as the two tickers    *)
(* take to wrap, on a program that never stops and keeps writing the       *)
(* ticker cells.  All pins are outputs and nothing is connected to inp.    *)
(***************************************************************************)
MaxTicks == 32768

\* inc B; save B,[027]; save B,[026]; jmp PROM
Scribbler == << 29, 17, TICKFAST, 17, TICKSLOW, 2, PROM >>

\* jmp PROM
Idler == << 2, PROM >>

TickInit ==
    \E sc \in { Powered(Scribbler, 63, MaxTicks) } :
        /\ memory = sc.memory
        /\ registers = sc.registers
        /\ clock = sc.clock
        /\ budget = sc.budget
        /\ hooks = <<>>
        /\ fetched = <<>>
        /\ result = "none"
        /\ lastop = NoOp("reset")
        /\ pushed = <<>>
        /\ popped = <<>>
        /\ s0 = 0
        /\ assembler = Assembler
        /\ messages = << >>
        /\ assembly = NoAssembly(sc.memory)

\* step() on a machine whose inp hook is overridden to return 0
StepGrounded == Stepping({ 0 })

TickSpec == TickInit /\ [][StepGrounded]_vars

(***************************************************************************)
(* A machine that is reset, given a program and run with a limit, as the   *)
(* tests of the module do: programs that stop at once, after two and after *)
(* five instructions, and programs that never stop.                        *)
(***************************************************************************)
MaxLimit == 7

Limits == 0..MaxLimit

Runnable == { << >>, CallReturn, TestRegisters, Idler, Scribbler }

RunInit ==
    \E prog \in Runnable, dir \in Dirs :
        LET sc == Powered(prog, dir, MaxLimit + 1)
        IN  /\ memory = sc.memory
            /\ registers = sc.registers
            /\ clock = sc.clock
            /\ budget = sc.budget
            /\ hooks = <<>>
            /\ fetched = <<>>
            /\ result = "none"
            /\ lastop = NoOp("reset")
            /\ pushed = <<>>
            /\ popped = <<>>
            /\ s0 = 0
            /\ assembler = Assembler
            /\ messages = << >>
            /\ assembly = NoAssembly(sc.memory)

\* run(limit): the budget of steps is less by the instructions executed
RunLimited ==
    /\ lastop.op = "reset"
    /\ \E limit \in Limits :
        \E inputs \in SeqsOf(InpVals, IF limit < 1 THEN 1 ELSE limit) :
            LET r == run(Current, limit, inputs)
            IN  /\ Becomes(r.m)
                /\ result' = r.ret
                /\ lastop' = Called("run", -1, limit, Cell(0), FALSE)
                /\ budget' = [ budget EXCEPT !.steps = @ - r.count ]
    /\ fetched' = <<>>
    /\ ForgetStack
    /\ UNCHANGED dvars

RunSpec == RunInit /\ [][RunLimited]_vars

(***************************************************************************)
(* Claims about the Machine.                                               *)
(***************************************************************************)
InPROM(a) == a \in PROM..(PROM + PROMLEN - 1)
Stepped == lastop.op = "step" /\ result = TRUE
Flag(name) == IF BitAnd(registers["F"], FLAGS[name]) # 0 THEN 1 ELSE 0

\* C1: PROM is read-only to the running program.  Whatever call is made, a
\* cell at 030..077 changes only when the call is prom() or a set() with
\* prom=True: no step() (any opcode, operand and addressing mode), no
\* reset(), no load() and no set() without prom=True changes one.
PromReadOnly ==
    [][ (\E a \in 0..63 : InPROM(a) /\ memory'[a] # memory[a])
            => (lastop'.op = "prom" \/ (lastop'.op = "set" /\ lastop'.prom)) ]_vars

\* a SAVE A,[B] has been executed with B pointing at its own opcode in PROM
PromReadOnlyWitness ==
    /\ Stepped
    /\ lastop.opcode = 18
    /\ lastop.was["B"] = PROM
    /\ lastop.was["I"] = PROM
    /\ memory[PROM] = 18

\* C2: when the cell addressed by I holds STOP, step() returns False and
\* changes no register, no memory cell and not the clock, fetches nothing
\* and calls no hook; the machine is still stopped afterwards.
StopIsInert ==
    [][ (lastop'.op = "step" /\ memory[registers["I"]] = STOP)
            => /\ result' = FALSE
               /\ memory' = memory
               /\ registers' = registers
               /\ clock' = clock
               /\ fetched' = <<>>
               /\ hooks' = <<>>
               /\ memory'[registers'["I"]] = STOP ]_vars

\* step() has been called on a stopped machine
StopIsInertWitness ==
    /\ lastop.op = "step"
    /\ result = FALSE
    /\ memory[registers["I"]] = STOP

\* the stack space is 010..017
StackBottom == 8

\* C3: after N pushes (of A, B or F) followed by k <= N pops, all within
\* the stack space (S starting at or below 020 and never going below 010),
\* the values popped are the values pushed, last pushed first, and S is
\* the initial S less N plus k: the initial S again once k = N.
StackDiscipline ==
    (s0 <= STACK /\ s0 - Len(pushed) >= StackBottom)
        => /\ Len(popped) <= Len(pushed)
           /\ \A i \in 1..Len(popped) : popped[i] = pushed[Len(pushed) + 1 - i]
           /\ pushed # <<>> => registers["S"] = s0 - Len(pushed) + Len(popped)

\* two different values have been pushed and both popped again
StackDisciplineWitness ==
    /\ Len(pushed) = 2
    /\ Len(popped) = 2
    /\ pushed[1] # pushed[2]
    /\ s0 = STACK
    /\ registers["S"] = STACK

\* C4: after a flag-affecting instruction whose target is not F, Carry is 1
\* exactly when the result before masking is negative or has a bit at or
\* above 0100 set.
CarryRule ==
    (/\ Stepped
     /\ OpClass(lastop.opcode) \in FLAGGED
     /\ TARGETS[lastop.opcode + 1] # "F")
        => (Flag("C") = 1 <=> (lastop.raw < 0 \/ lastop.raw >= 64))

\* the opcodes that address memory through [B]
BaseOps == { op \in 0..63 : SOURCES[op + 1] = "[B]" \/ TARGETS[op + 1] = "[B]" }

\* what an instruction of BaseOps does with the cell it addresses
BaseAccess(op, b) ==
    LET a == registers["A"]
        c == IF BitAnd(registers["F"], FLAGS["C"]) # 0 THEN 1 ELSE 0
        x == memory[b]
    IN  CASE OpClass(op) = "load" -> registers'["A"] = x
          [] OpClass(op) = "save" -> b < DIRECTIONS => memory'[b] = a
          [] OpClass(op) = "add"  -> registers'["A"] = (a + x + c) % 64
          [] OpClass(op) = "sub"  -> registers'["A"] = (a - x - c) % 64
          [] OpClass(op) = "and"  -> registers'["A"] = BitAnd(a, x)
          [] OpClass(op) = "or"   -> registers'["A"] = BitOr(a, x)

\* C5: an instruction that addresses memory through [B], executed with
\* B = b, reads or writes the cell at b and leaves B = (b + 1) mod 64;
\* three LOAD A,[B] in a row from B = 0 read the cells 0, 1 and 2 and
\* leave B = 3.
BaseAutoIncrement ==
    /\ [][ (lastop'.op = "step" /\ result' = TRUE
               /\ memory[registers["I"]] \in BaseOps)
            => /\ registers'["B"] = (registers["B"] + 1) % 64
               /\ BaseAccess(memory[registers["I"]], registers["B"]) ]_vars
    /\ [](\A k \in 1..3 :
            (/\ \A j \in 0..2 : memory[PROM + j] = 10
             /\ Stepped
             /\ lastop.was = [ RESET EXCEPT !["I"] = PROM + k - 1, !["B"] = k - 1,
                                            !["A"] = lastop.was["A"],
                                            !["F"] = lastop.was["F"] ])
                => /\ registers["A"] = Garbage(k - 1)
                   /\ registers["B"] = k)

\* the third LOAD A,[B] has been executed
BaseAutoIncrementWitness ==
    /\ Stepped
    /\ lastop.opcode = 10
    /\ lastop.was["I"] = PROM + 2
    /\ lastop.was["B"] = 2
    /\ registers["B"] = 3
    /\ registers["A"] = Garbage(2)

(***************************************************************************)
(* Claims about the Assembler and the Debugger.                            *)
(***************************************************************************)
\* a source has been assembled, and assemble() returned
Returned == Len(assembly.source) > 0 /\ assembly.raised = ""

\* the returned image is in PROM; PROM is as it was before the assembly
Burned == \A i \in 1..PROMLEN : memory[PROM + i - 1] = ENCODING[assembly.returned[i]]
NotBurned == \A a \in 0..63 : InPROM(a) => memory[a] = assembly.was[a]

\* the statement of a line of source, when the line is an instruction
Statement(line) ==
    IF /\ Len(strip(line)) > 0
       /\ strip(line)[1] # ";"
       /\ Len(LabelName(strip(line))) = 0
    THEN instruction(Assembler, strip(line))
    ELSE Nothing

\* the labels the statement of a line refers to
References(line) ==
    IF Statement(line).type = "list"
    THEN { Statement(line).value[k].value :
             k \in { k \in 1..Len(Statement(line).value) :
                       Statement(line).value[k].type = "str" } }
    ELSE {}

\* the shape of an operand as it is written: a register or flag, [B] with
\* or without +, [n], or an immediate value
Shape(word) ==
    IF Join(upper(word)) \in { "A", "B", "F", "C", "M", "Z" } THEN Join(upper(word))
    ELSE IF word[1] = "["
    THEN IF Join(upper(replace(word, << "+" >>, << >>))) = "[B]" THEN "[B]" ELSE "[_]"
    ELSE "_"

\* the one line of the source is the instruction `emitted`, made of `words`
Follows(emitted, words) ==
    /\ Len(fetched) = Len(emitted)
    /\ \A i \in 1..Len(fetched) : fetched[i] = resolve(assembler.labels, emitted[i])
    /\ Len(emitted) = 2 <=> fetched[1] \in IMMEDIATES
    /\ OpClass(fetched[1]) = opclassof(words[1])
    /\ \A k \in 2..Len(words) :
          Shape(words[k]) \in { SOURCES[fetched[1] + 1], TARGETS[fetched[1] + 1] }

\* C6: when a source of one line that instruction() accepts has been
\* assembled and burned, the step from the start of PROM consumes exactly
\* the bytes emitted for the line, two if and only if the opcode is in
\* IMMEDIATES; the opcode's class is the mnemonic and the operands written
\* are its source and target.
RoundTrip ==
    (/\ Returned
     /\ Len(assembly.source) = 1
     /\ Len(assembler.errors) = 0
     /\ Statement(assembly.source[1]).type = "list"
     /\ Stepped
     /\ lastop.was["I"] = PROM)
        => Follows(Statement(assembly.source[1]).value,
                   split(protect(strip(assembly.source[1]))))

\* an error of the diagnostic list that names the label as never resolved
NeverResolved(label) ==
    \E e \in 1..Len(assembler.errors) :
        /\ assembler.errors[e].tier = "Error"
        /\ assembler.errors[e].message = "Never resolved address"
        /\ assembler.errors[e].about = label

\* the statement of line i of the source was placed in the image
Placed(i) ==
    ~ \E e \in 1..Len(assembler.errors) :
        /\ assembler.errors[e].line = i
        /\ assembler.errors[e].message = "Code address is outside PROM space."

\* C7: when an instruction placed in the image refers to a label that the
\* source defines nowhere, the diagnostics hold an error for that
\* reference, a cell of the image that holds the reference is zero,
\* encoded is not set and PROM is not burned.
UnresolvedIsFatal ==
    \A i \in 1..Len(assembly.source) :
        \A label \in References(assembly.source[i]) :
            (Returned /\ Placed(i) /\ label \notin DOMAIN assembler.labels)
                => /\ NeverResolved(label)
                   /\ \A c \in 1..PROMLEN :
                         (assembler.code[c].type = "str" /\ assembler.code[c].value = label)
                             => assembly.returned[c] = OSCII[1]
                   /\ Len(assembler.encoded) = 0
                   /\ messages = assembler.errors
                   /\ NotBurned

\* C8: the cells of the image that refer to a defined label all hold the
\* address bound to the label, whether the statement of the cell comes
\* before or after the definition of the label.
LabelsResolveAlike ==
    \A c \in 1..PROMLEN :
        (/\ Returned
         /\ assembler.code[c].type = "str"
         /\ assembler.code[c].value \in DOMAIN assembler.labels)
            => assembly.returned[c]
                   = OSCII[assembler.labels[assembler.code[c].value].value + 1]

\* JNZ &loop before and after :loop: both operands are the address of loop
LabelsResolveAlikeWitness ==
    /\ Returned
    /\ assembly.source = << << "j", "n", "z", " ", "&", "l", "o", "o", "p" >>,
                            << ":", "l", "o", "o", "p" >>,
                            << "j", "n", "z", " ", "&", "l", "o", "o", "p" >> >>
    /\ assembler.labels["loop"] = Number(PROM + 2)
    /\ assembler.code[2] = Ref("loop")
    /\ assembler.code[4] = Ref("loop")
    /\ assembly.returned[1] = assembly.returned[3]
    /\ assembly.returned[2] = OSCII[PROM + 2 + 1]
    /\ assembly.returned[4] = OSCII[PROM + 2 + 1]
    /\ Burned

\* the source without its line k
Without(source, k) == SubSeq(source, 1, k - 1) \o SubSeq(source, k + 1, Len(source))

\* the image is placed as in the call f of assemble()
PlacedAs(f) ==
    f.raised = "" =>
        \A c \in 1..PROMLEN :
            /\ assembler.code[c].type = f.self.code[c].type
            /\ assembler.code[c].value = f.self.code[c].value

\* C9: a line :name=value does not move the statements after it: the bytes
\* of the image are placed where they are placed when the line is absent.
AbsoluteLabelKeepsAddress ==
    \A k \in 1..Len(assembly.source) :
        (Returned /\ Len(LabelValue(strip(assembly.source[k]))) > 0)
            => PlacedAs(assemble(Assembler, Without(assembly.source, k)))

\* C10: when every diagnostic of an assembly is a warning, the image is
\* finished and burned: encoded is the returned image and PROM holds it.
WarningIsNotFatal ==
    (/\ Returned
     /\ Len(assembler.errors) > 0
     /\ \A e \in 1..Len(assembler.errors) : assembler.errors[e].tier = "Warning")
        => /\ assembler.encoded = assembly.returned
           /\ Burned

\* C11: the image is usable exactly when the list of diagnostics is empty.
\* With no diagnostic, encoded is the returned image and PROM holds it;
\* with any, encoded is not set, no cell of PROM has changed and the
\* messages of the debugger are the diagnostics.
UsableWhenClean ==
    Returned =>
        IF Len(assembler.errors) = 0
        THEN assembler.encoded = assembly.returned /\ Burned
        ELSE /\ Len(assembler.encoded) = 0
             /\ NotBurned
             /\ messages = assembler.errors

\* an assembly with diagnostics whose image is not what PROM holds
UsableWhenCleanWitness ==
    /\ Returned
    /\ Len(assembler.errors) > 0
    /\ Len(assembler.encoded) = 0
    /\ messages = assembler.errors
    /\ NotBurned
    /\ ~Burned
    /\ \E i \in 1..PROMLEN : assembly.returned[i] # OSCII[STOP + 1]

\* the assembly of the first k lines of the source, before the fix-up
Upto(k) ==
    lines(Frame([ Assembler EXCEPT !.source = "input" ]),
          SubSeq(assembly.source, 1, k), 1)

\* a line that is neither blank, a comment, a label, literal data nor an
\* instruction
Unparseable(line) ==
    /\ Len(line) > 0
    /\ line[1] \notin { ";", "=" }
    /\ Len(LabelName(line)) = 0
    /\ instruction(Assembler, line).type # "list"

\* the errors 'Could not parse line' of line k
ParseErrors(errors, k) ==
    { e \in 1..Len(errors) :
        errors[e].message = "Could not parse line" /\ errors[e].line = k }

\* line k has added its one error to the diagnostics and nothing else
Diagnosed(before, after, k) ==
    /\ after.raised = ""
    /\ after.self.errors =
           Append(before.self.errors,
                  [ source |-> "input", line |-> k, tier |-> "Error",
                    message |-> "Could not parse line",
                    about |-> Join(strip(assembly.source[k])) ])
    /\ after.self.code = before.self.code
    /\ after.address = before.address
    /\ Returned => Cardinality(ParseErrors(assembler.errors, k)) = 1

\* C12: every line that is neither blank, a comment, a label, an
\* instruction nor literal data adds exactly one 'Could not parse line'
\* error with the number of the line, and the assembly goes on to the next
\* line with the image and the address as they were.
ParseErrorsAccumulate ==
    \A k \in 1..Len(assembly.source) :
        (Unparseable(strip(assembly.source[k])) /\ Upto(k - 1).raised = "")
            => Diagnosed(Upto(k - 1), Upto(k), k)

\* the bytes that the statement of a line has to place, if it has any
Attempted(line) ==
    IF Len(line) = 0 \/ line[1] = ";" \/ Len(LabelName(line)) > 0 THEN << >>
    ELSE IF instruction(Assembler, line).type = "list"
    THEN instruction(Assembler, line).value
    ELSE IF instruction(Assembler, line).type = "None" /\ line[1] = "="
            /\ literal(strip(Tail(line)), "", << >>).raised = ""
    THEN literal(strip(Tail(line)), "", << >>).encoding
    ELSE << >>

\* how many of n bytes find room in PROM from the address a on
Room(a, n) == IF a \in PROM..(PROM + PROMLEN - 1) THEN Min({ n, PROM + PROMLEN - a }) ELSE 0

\* the errors 'Code address is outside PROM space.' of line k
OutsideErrors(errors, k) ==
    { e \in 1..Len(errors) :
        /\ errors[e].message = "Code address is outside PROM space."
        /\ errors[e].tier = "Error"
        /\ errors[e].line = k }

\* line k has placed the first `room` of its bytes from the address on and
\* has an error for each of the others; no other cell has changed
BoundedBy(before, after, bytes, room, k) ==
    /\ after.raised = ""
    /\ Cardinality(OutsideErrors(after.self.errors, k)) = Len(bytes) - room
    /\ \A c \in 1..PROMLEN :
          after.self.code[c] =
              IF (c + PROM - 1) - before.address \in 0..(room - 1)
              THEN bytes[(c + PROM) - before.address]
              ELSE before.self.code[c]
    /\ after.address \notin PROM..(PROM + PROMLEN - 1)
    /\ Returned => /\ Cardinality(OutsideErrors(assembler.errors, k)) = Len(bytes) - room
                   /\ Len(assembler.encoded) = 0

Bounded(before, after, bytes, k) ==
    (before.raised = "" /\ Len(bytes) > Room(before.address, Len(bytes)))
        => BoundedBy(before, after, bytes, Room(before.address, Len(bytes)), k)

\* C13: a byte that would go outside PROM adds an error for its line and is
\* not written; the cells placed before keep their bytes, also those at the
\* start of PROM when the program is longer than PROM; the assembly goes on.
PlacedWithinBounds ==
    \A k \in 1..Len(assembly.source) :
        Bounded(Upto(k - 1), Upto(k), Attempted(strip(assembly.source[k])), k)

\* two lines of twenty-one symbols: the last two find no room
PlacedWithinBoundsWitness ==
    /\ Returned
    /\ Len(assembly.source) = 2
    /\ Len(Attempted(assembly.source[1])) = 21
    /\ Len(Attempted(assembly.source[2])) = 21
    /\ Cardinality(OutsideErrors(assembler.errors, 2)) = 2
    /\ assembler.code[1] = Number(ENCODING["O"])
    /\ assembler.code[2] = Number(ENCODING["C"])
    /\ assembler.code[PROMLEN] = Number(ENCODING["P"])
    /\ NotBurned

\* what follows the = of a literal data line
Data(line) == IF Len(line) > 0 /\ line[1] = "=" THEN strip(Tail(line)) ELSE << >>

\* the characters between the quote marks of a text that is one quoted
\* string of symbols of OSCII
Quoted(text) == SubSeq(text, 2, Len(text) - 1)

SingleString(text) ==
    /\ Len(text) > 1
    /\ text[1] \in Quotes
    /\ text[Len(text)] = text[1]
    /\ \A i \in 2..(Len(text) - 1) : text[i] # text[1] /\ text[i] \in Symbols

\* line k has placed the characters, encoded, from the address on
Emitted(before, after, chars) ==
    /\ after.raised = ""
    /\ after.self.errors = before.self.errors
    /\ \A c \in 1..PROMLEN :
          after.self.code[c] =
              IF (c + PROM - 1) - before.address \in 0..(Len(chars) - 1)
              THEN Number(ENCODING[chars[(c + PROM) - before.address]])
              ELSE before.self.code[c]
    /\ after.address = (before.address + Len(chars)) % 64

Emits(before, after, chars) ==
    (/\ before.raised = ""
     /\ before.address >= PROM
     /\ before.address + Len(chars) <= PROM + PROMLEN)
        => Emitted(before, after, chars)

\* C14: a literal data line of one quoted string of n symbols of OSCII
\* places n bytes, the ENCODING of each symbol in order, at the n addresses
\* from the current one on, and moves the address n further.
OneStringEmitsItsSymbols ==
    \A k \in 1..Len(assembly.source) :
        SingleString(Data(strip(assembly.source[k])))
            => Emits(Upto(k - 1), Upto(k), Quoted(Data(strip(assembly.source[k]))))

\* = 'OCTO' after a STOP: four bytes from 031 on
OneStringEmitsItsSymbolsWitness ==
    /\ Returned
    /\ Len(assembly.source) = 2
    /\ Upto(1).address = PROM + 1
    /\ Quoted(Data(assembly.source[2])) = << "O", "C", "T", "O" >>
    /\ Upto(2).address = PROM + 5
    /\ SubSeq(assembly.returned, 1, 6) = << "%", "O", "C", "T", "O", "%" >>
    /\ assembler.code[2] = Number(15)
    /\ assembler.code[3] = Number(3)
    /\ assembler.code[4] = Number(20)
    /\ Burned

\* The characters inside the quote marks of a text made of quoted strings
\* with whitespace between them: the characters, the number of strings, and
\* whether the text is such a text of symbols of OSCII.
RECURSIVE Inside(_, _, _, _)
Inside(text, quote, chars, strings) ==
    IF Len(text) = 0
    THEN [ chars |-> chars, strings |-> strings, ok |-> quote = "" ]
    ELSE IF quote = ""
    THEN IF text[1] \in { " ", "\t" } THEN Inside(Tail(text), "", chars, strings)
         ELSE IF text[1] \in Quotes THEN Inside(Tail(text), text[1], chars, strings + 1)
         ELSE [ chars |-> chars, strings |-> strings, ok |-> FALSE ]
    ELSE IF text[1] = quote THEN Inside(Tail(text), "", chars, strings)
    ELSE IF text[1] \notin Symbols
    THEN [ chars |-> chars, strings |-> strings, ok |-> FALSE ]
    ELSE Inside(Tail(text), quote, Append(chars, text[1]), strings)

ManyStrings(inside) == inside.ok /\ inside.strings > 1

\* C15: a literal data line of more than one quoted string places one byte
\* for each character inside the quote marks, in order, and none for the
\* marks or for the whitespace between the strings.
StringsEmitTheirSymbols ==
    \A k \in 1..Len(assembly.source) :
        ManyStrings(Inside(Data(strip(assembly.source[k])), "", << >>, 0))
            => Emits(Upto(k - 1), Upto(k),
                     Inside(Data(strip(assembly.source[k])), "", << >>, 0).chars)

\* a quoted string with a character that OSCII has not
Unencodable(text) ==
    /\ Len(text) > 1
    /\ text[1] \in Quotes
    /\ text[Len(text)] = text[1]
    /\ \A i \in 2..(Len(text) - 1) : text[i] # text[1]
    /\ \E i \in 2..(Len(text) - 1) : text[i] \notin Symbols

\* line k has added an error to the diagnostics and the assembly goes on
Refused(before, after, k) ==
    /\ after.raised = ""
    /\ Len(after.self.errors) > Len(before.self.errors)
    /\ \A e \in (Len(before.self.errors) + 1)..Len(after.self.errors) :
          after.self.errors[e].line = k /\ after.self.errors[e].tier = "Error"

\* C16: a literal data line with a character outside the 64 symbols adds
\* an error for the line, and the assembly goes on with the next line.
UnencodableIsAnError ==
    \A k \in 1..Len(assembly.source) :
        (Unencodable(Data(strip(assembly.source[k]))) /\ Upto(k - 1).raised = "")
            => Refused(Upto(k - 1), Upto(k), k)

\* the text after the = of a line :name=text, if the line is one
Given(line) ==
    IF /\ Len(LabelName(line)) > 0
       /\ Len(line) > Len(LabelName(line)) + 2
       /\ line[Len(LabelName(line)) + 2] = "="
    THEN SubSeq(line, Len(LabelName(line)) + 3, Len(line))
    ELSE << >>

\* no line after line k defines the label again
LastOf(k, name) ==
    \A j \in (k + 1)..Len(assembly.source) :
        Join(LabelName(strip(assembly.source[j]))) # name

\* the label is bound to the value, and the operands &name are the value
BoundTo(after, k, name, value) ==
    /\ after.raised = ""
    /\ name \in DOMAIN after.self.labels
    /\ after.self.labels[name] = value
    /\ (Returned /\ LastOf(k, name)) =>
          \A c \in 1..PROMLEN :
              (assembler.code[c].type = "str" /\ assembler.code[c].value = name)
                  => assembly.returned[c] = OSCII[value.value + 1]

\* C17: a line :name=literal binds the name to the value of the literal,
\* for each literal that immediate() takes: octal, decimal, or one quoted
\* symbol; an operand &name is assembled to that value.
LabelTakesAnyLiteral ==
    \A k \in 1..Len(assembly.source) :
        (/\ Upto(k - 1).raised = ""
         /\ Len(Given(strip(assembly.source[k]))) > 0
         /\ immediate(Assembler, Given(strip(assembly.source[k])), FALSE).type = "int")
            => BoundTo(Upto(k), k, Join(LabelName(strip(assembly.source[k]))),
                       immediate(Assembler, Given(strip(assembly.source[k])), FALSE))

\* the cells of the image that the statement between two frames left alone
KeptBy(before, after) ==
    { c \in 1..PROMLEN :
        /\ after.self.code[c].type = before.self.code[c].type
        /\ after.self.code[c].value = before.self.code[c].value }

\* the cells left alone by each line of the source
Kept == [ k \in 1..Len(assembly.source) |-> KeptBy(Upto(k - 1), Upto(k)) ]

\* the image has STOP in the cells that every line of `kept` left alone
StopsIn(kept) ==
    \A c \in 1..PROMLEN :
        /\ assembly.returned[c] \in Symbols
        /\ (\A k \in DOMAIN kept : c \in kept[k]) => assembly.returned[c] = OSCII[STOP + 1]

\* C18: whatever the source, once its lines are read assemble() returns an
\* image of PROMLEN cells, each a symbol of OSCII, with STOP in every cell
\* that no statement wrote; so it does when an operand or a label is a
\* literal above 63.
ImageIsWholeAndMasked ==
    (Len(assembly.source) > 0 /\ Upto(Len(assembly.source)).raised = "")
        => /\ assembly.raised = ""
           /\ Len(assembly.returned) = PROMLEN
           /\ StopsIn(Kept)

(***************************************************************************)
(* Claims about set() and get().                                           *)
(***************************************************************************)
\* a set() of a memory cell or of one of the five registers has been called
Latched(op) == op.op = "set" /\ (op.address.name = "" \/ op.address.name \in REGISTERS)

\* C19 as it is stated: for every memory address and every register, get(x)
\* right after set(x, v) is v & 077.
SetGetRoundTrip ==
    Latched(lastop) => get(Current, lastop.address) = Mask6(lastop.raw)

\* what get(x) is after set(x, v, prom) when the cell held `old`
LatchedValue(x, v, asprom, old, directions) ==
    IF x.name \in REGISTERS THEN Mask6(v)
    ELSE IF Mask6(x.cell) = PORTS THEN BitAnd(Mask6(v), directions)
    ELSE IF Mask6(x.cell) < PROM \/ asprom THEN Mask6(v)
    ELSE old

\* C19, amended: get(x) right after set(x, v) is v & 077 for the registers
\* and for the memory below PROM other than PORTS; at PORTS it is
\* v & 077 & memory[DIRECTIONS]; a cell of PROM keeps what it held, unless
\* prom=True is given, and then it is v & 077.
SetGetRoundTripBelowPROM ==
    [][ Latched(lastop')
            => get(Machine(memory', registers', clock', << >>), lastop'.address)
                   = LatchedValue(lastop'.address, lastop'.raw, lastop'.prom,
                                  get(Current, lastop'.address), memory[DIRECTIONS]) ]_vars

\* set(030, 5) on a new machine: the first cell of PROM holds what it held
SetGetRoundTripBelowPROMWitness ==
    /\ lastop.op = "set"
    /\ lastop.address = Cell(PROM)
    /\ ~lastop.prom
    /\ lastop.raw = 5
    /\ memory[PROM] = assembly.was[PROM]
    /\ memory[PROM] # 5

\* C20: for every address a of the RAM image, 000..023, and every v in
\* 0..63, get(a) right after set(a, v) is v, whatever the cell held.
RamWritesSucceed ==
    [][ (/\ lastop'.op = "set"
         /\ lastop'.address.name = ""
         /\ lastop'.address.cell \in RAM..(RAM + RAMLEN - 1)
         /\ lastop'.raw \in 0..63)
            => get(Machine(memory', registers', clock', << >>), lastop'.address)
                   = lastop'.raw ]_vars

\* set(020, 052) on a new machine: the first display cell held another value
RamWritesSucceedWitness ==
    /\ lastop.op = "set"
    /\ lastop.address = Cell(SCREEN)
    /\ lastop.raw = STOP
    /\ ~lastop.prom
    /\ memory[SCREEN] = STOP
    /\ assembly.was[SCREEN] # STOP


(***************************************************************************)
(* Claims about the instructions.                                          *)
(***************************************************************************)
\* an instruction of opcode `op` is executed by this step
Executes(op) ==
    /\ lastop'.op = "step"
    /\ result' = TRUE
    /\ memory[registers["I"]] = op

\* the program at the bottom of PROM
Holds(prog) == \A k \in 1..Len(prog) : memory[PROM + k - 1] = prog[k]

\* C21: POP F loads F with the byte read from the stack and increments S,
\* so that the flags C, M, Z are the bits 004, 002, 001 of the byte; the
\* program load A,o10; load B,o22; push A; push B; pop F; stop, run from
\* reset, halts with A = 010, B = 022, I = PROM+7, S = STACK-1, Minus = 1,
\* Zero = 0 and Carry = 0.
PopFLoadsF ==
    /\ [][ Executes(30)
            => LET byte == memory[registers["S"]]
               IN  /\ registers'["F"] = byte
                   /\ registers'["S"] = (registers["S"] + 1) % 64
                   /\ get(Machine(memory', registers', clock', << >>), Name("C"))
                          = (byte \div 4) % 2
                   /\ get(Machine(memory', registers', clock', << >>), Name("M"))
                          = (byte \div 2) % 2
                   /\ get(Machine(memory', registers', clock', << >>), Name("Z"))
                          = byte % 2 ]_vars
    /\ []((Holds(TestRegisters) /\ Stepped /\ lastop.opcode = 30
                /\ lastop.was["I"] = PROM + 6)
            => /\ stopped(Current)
               /\ registers["A"] = 8
               /\ registers["B"] = 18
               /\ registers["I"] = PROM + 7
               /\ registers["S"] = STACK - 1
               /\ Flag("M") = 1
               /\ Flag("Z") = 0
               /\ Flag("C") = 0)

\* the program has been run from reset, and the step after POP F found STOP
PopFLoadsFWitness ==
    /\ Holds(TestRegisters)
    /\ budget.steps = 0
    /\ lastop.op = "step"
    /\ result = FALSE
    /\ registers["I"] = PROM + 7
    /\ registers["F"] = 18
    /\ memory[STACK - 1] = 8
    /\ memory[STACK - 2] = 18


\* A, B and F are as they were before the step
KeepsABF ==
    /\ registers'["A"] = registers["A"]
    /\ registers'["B"] = registers["B"]
    /\ registers'["F"] = registers["F"]

\* C22: CALL t executed with S = s, s-1 an address of RAM (000..023), and
\* r the address after its two bytes, leaves S = s-1, mem[s-1] = r and
\* I = t; RETURN executed with S = s-1 leaves I = mem[s-1] and S = s;
\* neither changes A, B or F.
CallThenReturn ==
    /\ [][ (Executes(34) /\ registers["S"] - 1 \in RAM..(RAM + RAMLEN - 1))
            => /\ registers'["S"] = registers["S"] - 1
               /\ memory'[registers["S"] - 1] = (registers["I"] + 2) % 64
               /\ registers'["I"] = memory[(registers["I"] + 1) % 64]
               /\ KeepsABF ]_vars
    /\ [][ Executes(26)
            => /\ registers'["I"] = memory[registers["S"]]
               /\ registers'["S"] = (registers["S"] + 1) % 64
               /\ KeepsABF ]_vars

\* from reset, call PROM+3 has been executed and the return at PROM+3 has
\* come back to the address after the call, with S as it was before
CallThenReturnWitness ==
    /\ Holds(CallReturn)
    /\ Stepped
    /\ lastop.opcode = 26
    /\ lastop.was["I"] = PROM + 3
    /\ lastop.was["S"] = STACK - 1
    /\ memory[STACK - 1] = PROM + 2
    /\ registers["I"] = PROM + 2
    /\ registers["S"] = STACK


\* a flag-affecting instruction has been executed
Flagging == Stepped /\ OpClass(lastop.opcode) \in FLAGGED

\* C23 as it is stated: after a flag-affecting instruction whose target is
\* not F, Zero is 1 exactly when the result before masking is 0.
ZeroRule ==
    (Flagging /\ TARGETS[lastop.opcode + 1] # "F")
        => (Flag("Z") = 1 <=> lastop.raw = 0)

\* C23, amended: after a flag-affecting instruction whose target is not F
\* and not the flag Z, Zero is 1 exactly when the six low bits of the
\* result are 0; after CLR Z, Zero is 0.
ZeroRuleMasked ==
    /\ (Flagging /\ TARGETS[lastop.opcode + 1] \notin { "F", "Z" })
            => (Flag("Z") = 1 <=> lastop.raw % 64 = 0)
    /\ (Flagging /\ TARGETS[lastop.opcode + 1] = "Z") => Flag("Z") = 0

\* INC B has been executed with B = 077: the result is 0100, B is 0 and
\* Zero is set
ZeroRuleMaskedWitness ==
    /\ Stepped
    /\ lastop.opcode = 29
    /\ lastop.was["B"] = 63
    /\ lastop.raw = 64
    /\ registers["B"] = 0
    /\ Flag("Z") = 1


\* C24: after ROL A the Carry flag is bit 040 of the old A, and after
\* ROR A it is bit 001 of the old A, for every A and either old Carry.
RotateCarry ==
    /\ (Stepped /\ lastop.opcode = 28)
            => Flag("C") = (lastop.was["A"] \div 32) % 2
    /\ (Stepped /\ lastop.opcode = 36)
            => Flag("C") = lastop.was["A"] % 2


\* the source value of the instruction about to be executed: the operand
\* byte, B, or the cell B points to
SourceValue ==
    LET source == SOURCES[memory[registers["I"]] + 1]
    IN  CASE source = "_"   -> memory[(registers["I"] + 1) % 64]
          [] source = "B"   -> registers["B"]
          [] source = "[B]" -> memory[registers["B"]]

\* C25: ADD A,v stores (A + v + C) mod 64 in A, v the source value and C
\* the Carry flag before the instruction (so the sum of the two modulo 64
\* when Carry is clear); SUB A,v stores (A - v - C) mod 64.
AddSubWithCarry ==
    /\ [][ (\E op \in { 48, 49, 50 } : Executes(op))
            => registers'["A"] = (registers["A"] + SourceValue + Flag("C")) % 64 ]_vars
    /\ [][ (\E op \in { 56, 57, 58 } : Executes(op))
            => registers'["A"] = (registers["A"] - SourceValue - Flag("C")) % 64 ]_vars

\* SUB A,077 has been executed with A = 077 and Carry set: the result is
\* -1 and A is 077
AddSubWithCarryWitness ==
    /\ Stepped
    /\ fetched = << 56, 63 >>
    /\ lastop.was["A"] = 63
    /\ lastop.was["F"] = 4
    /\ lastop.raw = -1
    /\ registers["A"] = 63


(***************************************************************************)
(* Claims about the ticker, the I/O pass, run() and reset().               *)
(***************************************************************************)
\* the steps executed since reset() by a program that does not stop
Ticks == MaxTicks - budget.steps

\* C26: after k executed steps following reset(), cell 027 holds
\* floor(k/8) mod 64 and cell 026 holds floor(k/512) mod 64, whatever the
\* program wrote to the two cells; after 32768 steps both are 0 again.
TickerCounts ==
    /\ memory[TICKFAST] = (Ticks \div 8) % 64
    /\ memory[TICKSLOW] = (Ticks \div 512) % 64
    /\ Ticks = 32768 => (memory[TICKFAST] = 0 /\ memory[TICKSLOW] = 0)

\* more than 512 steps after reset, save B,[027] has just been executed
\* with another value in B than the fast ticker now holds
TickerCountsWitness ==
    /\ Stepped
    /\ fetched = << 17, TICKFAST >>
    /\ Ticks > 512
    /\ memory[TICKSLOW] = 1
    /\ memory[TICKFAST] > 0
    /\ registers["B"] # memory[TICKFAST]


\* the machine after the instruction at I and the tick, before the I/O pass
Ticked ==
    LET f1 == fetch(Current)
        f2 == IF f1.byte \in IMMEDIATES THEN fetch(f1.m)
              ELSE [ byte |-> None, m |-> f1.m ]
    IN  tick(execute(f2.m, f1.byte, f2.byte).m)

\* the I/O pass made on the machine `m`, as the hooks and the memory show it
Passed(m, d) ==
    /\ Len(hooks') = 3
    /\ hooks'[1] = << "out", BitAnd(m.memory[PORTS], d) >>
    /\ BitAnd(hooks'[1][2], Not6(d)) = 0
    /\ hooks'[2][1] = "inp"
    /\ hooks'[3] = << "display", << m.memory[SCREEN], m.memory[SCREEN + 1],
                                    m.memory[SCREEN + 2], m.memory[SCREEN + 3] >> >>
    /\ memory'[PORTS] = BitOr(BitAnd(m.memory[PORTS], d),
                              BitAnd(BitAnd(hooks'[2][2], Not6(d)), 63))
    /\ \A a \in 0..63 : a # PORTS => memory'[a] = m.memory[a]
    /\ registers' = m.registers
    /\ clock' = m.clock

\* C27: every executed step, after the instruction and the tick, calls out
\* once with mem[PORTS] & mem[DIRECTIONS], then inp once, then display once
\* with the cells 020..023; afterwards mem[PORTS] is (old PORTS &
\* DIRECTIONS) | (inp() & ~DIRECTIONS & 077), and out sees no bit of an
\* input pin.
IoPass ==
    [][ (lastop'.op = "step" /\ result' = TRUE)
            => Passed(Ticked, Ticked.memory[DIRECTIONS]) ]_vars

\* a step has been executed with the three low pins inputs: out was given
\* the three high bits of the ports register and inp supplied the low ones
IoPassWitness ==
    /\ Stepped
    /\ memory[DIRECTIONS] = 56
    /\ assembly.was[PORTS] = 22
    /\ hooks = << << "out", 16 >>, << "inp", 63 >>,
                  << "display", << memory[SCREEN], memory[SCREEN + 1],
                                   memory[SCREEN + 2], memory[SCREEN + 3] >> >> >>
    /\ memory[PORTS] = 23


\* the value the instruction about to be executed writes to the cell `a`;
\* -1 when it does not write there: save A,[n], save B,[n], save A,[B],
\* push A, push B, push F, call
Writes(a) ==
    LET op == memory[registers["I"]]
        n  == memory[(registers["I"] + 1) % 64]
    IN  CASE op = 16 /\ n = a -> registers["A"]
          [] op = 17 /\ n = a -> registers["B"]
          [] op = 18 /\ registers["B"] = a -> registers["A"]
          [] op \in { 32, 33, 38 } /\ registers["S"] = a + 1
                -> registers[SOURCES[op + 1]]
          [] op = 34 /\ registers["S"] = a + 1 -> (registers["I"] + 2) % 64
          [] OTHER -> -1

\* C28: when an instruction writes v to 025 while mem[024] = d, the output
\* pins take v & d and the input pins cannot be set by the program: at the
\* end of the step mem[025] & d = v & d and mem[025] & ~d is what inp()
\* supplied for these pins.
PortsAreMasked ==
    [][ (lastop'.op = "step" /\ result' = TRUE /\ Writes(PORTS) >= 0)
            => LET d == memory[DIRECTIONS]
                   v == Writes(PORTS)
               IN  /\ BitAnd(memory'[PORTS], d) = BitAnd(v, d)
                   /\ BitAnd(memory'[PORTS], Not6(d))
                          = BitAnd(hooks'[2][2], Not6(d))
                   /\ hooks'[1] = << "out", BitAnd(v, d) >> ]_vars

\* save A,[025] has been executed with A = 077 and the three low pins
\* inputs, inp() supplying 025: the ports register holds 075
PortsAreMaskedWitness ==
    /\ Stepped
    /\ fetched = << 16, PORTS >>
    /\ lastop.was["A"] = 63
    /\ memory[DIRECTIONS] = 56
    /\ hooks[2] = << "inp", 21 >>
    /\ memory[PORTS] = 61


\* the instructions a run executed
Ran == budget.steps - budget'.steps

\* the machine after the first j instructions of a run, the inp hook
\* returning what the log of hook calls of the run shows
RECURSIVE Along(_, _, _)
Along(m, j, calls) ==
    IF j = 0 THEN m
    ELSE Along(step(m, calls[2][2]).m, j - 1, SubSeq(calls, 4, Len(calls)))

\* C29: run(limit=n) with n >= 1 returns after at most n instructions,
\* whatever the program; it stops before the n-th exactly when STOP is
\* found at I, and then returns True.
RunIsBounded ==
    [][ (lastop'.op = "run" /\ lastop'.raw >= 1)
            => /\ Ran \in 0..lastop'.raw
               /\ clock' = clock + Ran
               /\ Len(hooks') = 3 * Ran
               /\ \A j \in 0..(Ran - 1) : ~stopped(Along(Current, j, hooks'))
               /\ Ran < lastop'.raw
                      => (result' = TRUE /\ memory'[registers'["I"]] = STOP)
               /\ Ran = lastop'.raw => result' = FALSE ]_vars

\* run(limit=7) of the program of __testRegisters has stopped after five
\* instructions and returned True
RunIsBoundedWitness ==
    /\ lastop.op = "run"
    /\ lastop.raw = 7
    /\ Holds(TestRegisters)
    /\ result = TRUE
    /\ budget.steps = MaxLimit + 1 - 5
    /\ registers["I"] = PROM + 7


\* C30: reset(), from any state, sets A = 0, B = 0, I = 030, S = 020 and
\* F = 0 and both ticker cells to 0, and clears no memory: no cell other
\* than 025, 026 and 027 changes.
ResetPowersUp ==
    [][ lastop'.op = "reset"
            => /\ registers' = [ A |-> 0, B |-> 0, I |-> 24, S |-> 16, F |-> 0 ]
               /\ memory'[TICKSLOW] = 0
               /\ memory'[TICKFAST] = 0
               /\ \A a \in 0..63 :
                      a \notin { PORTS, TICKSLOW, TICKFAST } => memory'[a] = memory[a] ]_vars

\* reset() has been called on a machine whose registers, flags and ticker
\* cells held other values; the RAM is as it was
ResetPowersUpWitness ==
    /\ lastop.op = "reset"
    /\ lastop.was = [ A |-> 33, B |-> 63, I |-> PROM, S |-> 25, F |-> 7 ]
    /\ assembly.was[TICKFAST] # 0
    /\ assembly.was[TICKSLOW] # 0
    /\ registers["F"] = 0
    /\ memory[TICKFAST] = 0
    /\ memory[0] = Garbage(0)
    /\ memory[STACK - 1] = Garbage(STACK - 1)


(***************************************************************************)
(* Claims about the instruction set.                                       *)
(***************************************************************************)
\* the machine after this step, had the instruction at I been `opcode`
\* with the operand byte `byte`: the registers other than I, and memory
Instead(opcode, byte) ==
    LET m == io(tick(execute(fetch(Current).m, opcode, byte).m), hooks'[2][2])
    IN  [ A |-> m.registers["A"], B |-> m.registers["B"], S |-> m.registers["S"],
          F |-> m.registers["F"], memory |-> m.memory ]

\* the same of the machine after this step
Outcome ==
    [ A |-> registers'["A"], B |-> registers'["B"], S |-> registers'["S"],
      F |-> registers'["F"], memory |-> memory' ]

\* C31: for every n in 0..7 and every state, executing QLn leaves A, B, S,
\* F and every memory cell as executing LOAD A,[n] from the same state
\* does.
QuickLoadIsLoad ==
    [][ \A n \in 0..7 : Executes(8 * n + 3) => Outcome = Instead(8, n) ]_vars


\* add A, [o25]
AddIndirect == << "a", "d", "d", " ", "A", ",", " ", "[", "o", "2", "5", "]" >>

\* C32: the statement ADD A,[n] assembles without a diagnostic, and
\* executing it adds the contents of the memory address n to A.
AddTakesIndirect ==
    assembly.source = << AddIndirect >>
        => /\ Returned
           /\ Len(assembler.errors) = 0
           /\ Burned
           /\ (Stepped => registers["A"]
                            = (lastop.was["A"] + assembly.was[PORTS]
                                 + ((lastop.was["F"] \div 4) % 2)) % 64)


\* the conditional jumps: the flag each tests, and the value it jumps on
Conditions ==
    [ op \in { 12, 13, 14, 20, 21, 22 } |->
        CASE op = 12 -> [ flag |-> "C", on |-> 1 ]
          [] op = 13 -> [ flag |-> "M", on |-> 1 ]
          [] op = 14 -> [ flag |-> "Z", on |-> 1 ]
          [] op = 20 -> [ flag |-> "C", on |-> 0 ]
          [] op = 21 -> [ flag |-> "M", on |-> 0 ]
          [] op = 22 -> [ flag |-> "Z", on |-> 0 ] ]

\* C33: JZ, JM, JC with operand t set I = t exactly when the Z, M, C flag
\* is 1, and JNZ, JNM, JNC exactly when it is 0; otherwise I is the
\* address after the two bytes, modulo 64.  A, B, S, F and the memory
\* outside the ticker and PORTS cells are unchanged.
ConditionalJumps ==
    [][ \A op \in DOMAIN Conditions :
          Executes(op)
            => /\ registers'["I"]
                    = IF Flag(Conditions[op].flag) = Conditions[op].on
                      THEN memory[(registers["I"] + 1) % 64]
                      ELSE (registers["I"] + 2) % 64
               /\ KeepsABF
               /\ registers'["S"] = registers["S"]
               /\ \A a \in 0..63 :
                      a \notin { PORTS, TICKSLOW, TICKFAST } => memory'[a] = memory[a] ]_vars

\* JNZ 077 at 076 has been executed with Zero set: I is 0, not 077
ConditionalJumpsWitness ==
    /\ Stepped
    /\ fetched = << 22, 63 >>
    /\ lastop.was["I"] = 62
    /\ lastop.was["F"] = 1
    /\ registers["I"] = 0


\* C34: k consecutive PUSH instructions (k <= 8) executed from S = 020
\* store the values pushed at 017, 016, ..., 020-k in that order, leave
\* S = 020-k and change no other cell of RAM 000..023 (each push, with S
\* in 011..020, writes the cell at S-1 and that cell only); the eight
\* pushes of 'A'..'H' of the stack test leave 010..017 = 'HGFEDCBA',
\* S = 010 and the cell below as it was.
PushesFillDownward ==
    /\ [][ \A op \in PushOps :
             (Executes(op) /\ registers["S"] \in (STACK - 7)..STACK)
                => /\ memory'[registers["S"] - 1] = registers[SOURCES[op + 1]]
                   /\ registers'["S"] = registers["S"] - 1
                   /\ \A a \in RAM..(RAM + RAMLEN - 1) :
                          a # registers["S"] - 1 => memory'[a] = memory[a] ]_vars
    /\ []((Holds(EightPushes) /\ Stepped /\ lastop.was["I"] = PROM + 7)
            => /\ registers["S"] = STACK - 8
               /\ \A k \in 1..8 :
                      memory[STACK - k] = lastop.was[SOURCES[EightPushes[k] + 1]]
               /\ \A a \in RAM..(RAM + RAMLEN - 1) :
                      a \notin (STACK - 8)..(STACK - 1) => memory[a] = assembly.was[a])
    /\ []((Holds(TestStack) /\ stopped(Current) /\ registers["I"] = PROM + 14)
            => /\ registers["S"] = STACK - 8
               /\ \A k \in 1..8 : memory[STACK - k] = ENCODING[UPPERCASE[k]]
               /\ memory[STACK - 9] = ENCODING["*"])

\* the program of the stack test has stopped after its eight pushes
PushesFillDownwardWitness ==
    /\ Holds(TestStack)
    /\ lastop.op = "step"
    /\ result = FALSE
    /\ registers["I"] = PROM + 14
    /\ registers["S"] = STACK - 8
    /\ memory[STACK - 1] = 1
    /\ memory[STACK - 8] = 8
    /\ memory[STACK - 9] = 45


\* C35: in every state reached by reset, set, load, prom and step calls,
\* with any value returned by inp, each of the 64 memory cells and each of
\* the registers A, B, I, S, F holds a value in 0..63; I wraps modulo 64
\* when it is incremented past 077, and S wraps modulo 64 when a push
\* decrements it below 0 or a pop increments it past 077.
SixBits ==
    /\ [](/\ DOMAIN memory = 0..63
          /\ \A a \in 0..63 : memory[a] \in 0..63
          /\ \A r \in { "A", "B", "I", "S", "F" } : registers[r] \in 0..63)
    /\ [][ \A op \in 0..63 :
             Executes(op)
                => /\ TARGETS[op + 1] # "I"
                      => registers'["I"]
                           = (registers["I"]
                                + (IF op \in IMMEDIATES THEN 2 ELSE 1)) % 64
                   /\ op \in PUSHES
                      => registers'["S"] = (registers["S"] + 63) % 64
                   /\ op \in POPS
                      => registers'["S"] = (registers["S"] + 1) % 64 ]_vars

\* POP A with I and S at 077 has left both at 0
SixBitsWitness ==
    /\ Stepped
    /\ lastop.opcode = 24
    /\ lastop.was["I"] = 63
    /\ lastop.was["S"] = 63
    /\ registers["I"] = 0
    /\ registers["S"] = 0


\* C36: ROL A stores ((A << 1) | C) & 077 in A and ROR A stores
\* (A >> 1) | (C << 5) in A, where C is the Carry flag before the
\* instruction, for every A in 0..63.
RotateThroughCarry ==
    [][ /\ Executes(28)
           => registers'["A"] = ((2 * registers["A"]) % 64) + Flag("C")
        /\ Executes(36)
           => registers'["A"] = (registers["A"] \div 2) + 32 * Flag("C") ]_vars

\* ROL A of 041 with Carry set has left 003, or ROR A of 041 has left 060
RotateThroughCarryWitness ==
    /\ Stepped
    /\ lastop.was["A"] = 33
    /\ lastop.was["F"] \in { 4, 5 }
    /\ \/ lastop.opcode = 28 /\ registers["A"] = 3
       \/ lastop.opcode = 36 /\ registers["A"] = 48


\* the operand shapes the assembler has for an opcode
Shapes(opcode) == { OPERANDS[opcode + 1], DIRECTANDS[opcode + 1] } \ { "" }

\* the tables of the assembler and of the machine describe the opcode alike
Agree(opcode) ==
    LET left  == OPERANDS[opcode + 1]
        right == DIRECTANDS[opcode + 1]
    IN  /\ (Shapes(opcode) \cap { "_", "[_]" } # {}) <=> opcode \in IMMEDIATES
        /\ right # ""
              => IF OPCODES[opcode + 1] = "save"
                 THEN left = SOURCES[opcode + 1] /\ right = TARGETS[opcode + 1]
                 ELSE left = TARGETS[opcode + 1] /\ right = SOURCES[opcode + 1]
        /\ (right = "" /\ left # "")
              => left \in { SOURCES[opcode + 1], TARGETS[opcode + 1] }

\* C37: for every opcode 0..63 the shapes of OPERANDS and DIRECTANDS hold
\* '_' or '[_]' if and only if the opcode is in IMMEDIATES, and every shape
\* is the source or the target the machine has for the opcode (of two
\* shapes the left is the target and the right the source, the other way
\* round for save); so a statement written with all the operands of its
\* opcode, once assembled and burned, is stepped over entirely: two bytes
\* are emitted and two are fetched exactly when the opcode is in IMMEDIATES.
TablesAgree ==
    /\ \A opcode \in 0..63 : Agree(opcode)
    /\ (/\ Returned
        /\ Len(assembly.source) = 1
        /\ Len(assembler.errors) = 0
        /\ Statement(assembly.source[1]).type = "list"
        /\ Stepped
        /\ lastop.was["I"] = PROM
        /\ Len(split(protect(strip(assembly.source[1]))))
              = 1 + Cardinality({ t \in { OPERANDS, DIRECTANDS } : t[lastop.opcode + 1] # "" }))
          => /\ Len(fetched) = Len(Statement(assembly.source[1]).value)
             /\ Len(fetched) = 2 <=> lastop.opcode \in IMMEDIATES
             /\ \A k \in 2..Len(split(protect(strip(assembly.source[1])))) :
                   Shape(split(protect(strip(assembly.source[1])))[k])
                      \in Shapes(lastop.opcode)

\* or A, o25 was assembled and stepped: opcode and operand were fetched
TablesAgreeWitness ==
    /\ Returned
    /\ assembly.source = << << "o", "r", " ", "A", ",", " ", "o", "2", "5" >> >>
    /\ Stepped
    /\ lastop.was["I"] = PROM
    /\ fetched = << 60, 21 >>
    /\ registers["I"] = PROM + 2


\* C38: a step changes register B only if B is the target of the
\* instruction or the instruction accesses memory through [B]; every other
\* instruction, LOAD F with an immediate among them, leaves B unchanged.
BaseChangesWhenAddressed ==
    [][ \A op \in 0..63 :
          (Executes(op) /\ registers'["B"] # registers["B"])
             => \/ TARGETS[op + 1] = "B"
                \/ "[B]" \in { SOURCES[op + 1], TARGETS[op + 1] } ]_vars


\* C39: each of CLR C, CLR M and CLR Z leaves the named flag 0 and leaves
\* the other two flags, and A, B and S, unchanged.
ClearOneFlag ==
    [][ \A op \in { 4, 5, 6 } :
          Executes(op)
             => /\ registers'["F"]
                     = registers["F"] - FLAGS[TARGETS[op + 1]] * Flag(TARGETS[op + 1])
                /\ registers'["A"] = registers["A"]
                /\ registers'["B"] = registers["B"]
                /\ registers'["S"] = registers["S"] ]_vars


\* C40: for every program and every limit n >= 1, run(limit=n) returns True
\* if and only if the machine is stopped (the cell at I holds STOP) when
\* run returns; a program that reaches STOP after exactly n instructions
\* makes run(limit=n) return True.
RunReflectsHalt ==
    (lastop.op = "run" /\ lastop.raw >= 1)
        => (result = TRUE <=> memory[registers["I"]] = STOP)

====
